---------------------------- MODULE Spec2Model ----------------------------
(***************************************************************************)
(* The HTTP interceptor chain of packages/common/http: the stream variant  *)
(* (rxjs-interop/src/interceptor.ts, HttpInterceptorHandler and            *)
(* legacyInterceptorFnFactory) and the single-shot promise variant         *)
(* (src/interceptor.ts, HttpInterceptorHandler).                           *)
(*                                                                         *)
(* An Observable is modelled by what subscribing to it does.  A chain      *)
(* invocation returns a pipe: a sequence of layers, outermost first, that  *)
(* ends in a source.  Subscribing resolves the pipe into the live layers   *)
(* of a subscription; notifications travel from the source up through the  *)
(* live layers to the caller.                                              *)
(***************************************************************************)
EXTENDS Integers, Sequences, FiniteSets, TLC

(* ------------------------------ bounds -------------------------------- *)
MaxFns == 2          \* longest HTTP_INTERCEPTOR_FNS list at construction
MaxRoot == 1         \* longest HTTP_ROOT_INTERCEPTOR_FNS list at construction
MaxCalls == 2        \* handle calls per Dispatcher
MaxSubs == 2         \* subscriptions to the streams handle returned
MaxRegister == 1     \* registrations made after the first handle call
MaxChain == 3        \* longest list of the retry and emission scenarios
MaxRequests == 1     \* requests callers make of Http and of the handler
MaxConstructions == 3  \* constructions and flag resets of the warning scenario
MaxFeatures == 2     \* features passed to one provideClientHydration call
MaxRules == 2        \* extra day period rules of the locale
MaxDigitsLen == 5    \* longest digitsInfo string

(* --------------------------- interceptor entries ----------------------- *)
\* Next-based entries (ObservableInterceptorFn) and what their bodies do.
Adders == {"addA", "addB"}            \* return next(req.clone(+header)).pipe(tap)
FnEntries == Adders \cup {"short", "throw", "legacy"}
\* Callback-based entries ({eventInterceptor}).
EvEntries == {"evFwd", "evShort"}
Entries == FnEntries \cup EvEntries
\* Entries the root injector may hold (HTTP_ROOT_INTERCEPTOR_FNS).
RootInputs == {"addA", "addB", "evFwd"}
\* Entries a later registration may add.
RegisterInputs == {"addB"}
\* Legacy class-based interceptors (HTTP_INTERCEPTORS): intercept(req, next)
\* returns next.handle(req).pipe(tap).
LegacyInputs == {<<"la">>, <<"la", "lb">>}
\* Entries that call their continuation exactly once per invocation.
CallsNextOnce == Adders \cup {"evFwd"}
\* Entries that never call their continuation.
NeverCallsNext == {"short", "throw", "evShort"}

\* Entries of the retry and emission scenarios: "retry" is next-based and
\* returns next(req).pipe(catchError(() => next(req))); "evBurst" is
\* callback-based, never calls next and emits, in this order, Sent,
\* DownloadProgress, a response of its own, DownloadProgress again and a second
\* response.
RetryEntries == {"retry"}
BurstEntries == {"evBurst"}
StreamInputs == {"addA", "evFwd"} \cup RetryEntries \cup BurstEntries

Kind(e) == IF e \in EvEntries \cup BurstEntries THEN "ev" ELSE "fn"

(* ------------------------------ requests ------------------------------- *)
\* A request is its header map, a set of <<name, value>> pairs.
NoHeaders == {}
ReqInputs == {NoHeaders, {<<"X-A", "0">>}}

\* HttpHeaders.set(name, value): replaces the values of the header.
SetHeader(req, n, v) == {p \in req : p[1] # n} \cup {<<n, v>>}

\* The request an adder entry passes to next.
AddHeader(e, req) ==
  IF e = "addA" THEN SetHeader(req, "X-A", "1")
  ELSE IF e = "addB" THEN SetHeader(req, "X-B", "2")
  ELSE req

(* ------------------------------- events -------------------------------- *)
Ev(t, b) == [type |-> t, body |-> b]
SentEv == Ev("Sent", {})
CompleteSig == Ev("complete", {})
ErrorSig == Ev("error", {})
\* The backend echoes the headers it received as the response body.
EchoResponse(req) == Ev("Response", req)
\* The response a short-circuiting entry makes up.
OwnResponse(e) == Ev("Response", {<<"by", e>>})
IsTerminal(sig) == sig.type \in {"complete", "error"}
ProgressEv == Ev("DownloadProgress", {})
\* What "evBurst" passes to emit, in order.
BurstEvents(e) == <<SentEv, ProgressEv, OwnResponse(e), ProgressEv, OwnResponse(e)>>

(* ------------------------------- layers -------------------------------- *)
Layer(op, e, idx, req, token) ==
  [op |-> op, e |-> e, idx |-> idx, req |-> req, token |-> token, closed |-> FALSE]
Tap(e) == Layer("tap", e, 0, {}, 0)
Finalize(token) == Layer("finalize", "", 0, {}, token)
BackendSrc(req) == Layer("backend", "", 0, req, 0)
OfSrc(e) == Layer("of", e, 0, {}, 0)
EvStage(e, idx, req) == Layer("ev", e, idx, req, 0)
\* catchError(() => next(req)) of the entry at index idx, called with req.
CatchError(e, idx, req) == Layer("catch", e, idx, req, 0)

(* -------------------- the machine a synchronous run threads ------------ *)
\* log: what the run did, in order; pending, removeCalls: the pending-task
\* registry and how often remove was called per token; legacyChain: the
\* chain cell of legacyInterceptorFnFactory.
Item(k, e, r) == [k |-> k, e |-> e, r |-> r]
Log(m, k, e, r) == [m EXCEPT !.log = Append(@, Item(k, e, r))]
\* An event at the emit callback of entry e: passed to it ("emit") or passed
\* on by it to the stage's subscriber ("fwd").
EvItem(k, e, sig) == [k |-> k, e |-> e, r |-> sig.body, t |-> sig.type]


VARIABLES
  variant,                \* "stream" or "single": the handler class provided
  fns,                    \* HTTP_INTERCEPTOR_FNS, as the injector returns it
  rootFns,                \* HTTP_ROOT_INTERCEPTOR_FNS
  legacyFns,              \* HTTP_INTERCEPTORS
  contributeToStability,  \* REQUESTS_CONTRIBUTE_TO_STABILITY
  chain,                  \* HttpInterceptorHandler.chain (stream variant)
  buildCount,             \* history: how often the chain field was assigned
  legacyChain,            \* the chain cell closed over by the legacy entry
  pendingTasks,           \* the pending-task registry: the tokens it holds
  addCalls,               \* history: number of add() calls
  removeCalls,            \* history: remove(token) calls, per token
  calls,                  \* the handle calls made so far
  subs,                   \* the subscriptions made so far (stream variant)
  promises,               \* the handle calls made so far (single-shot variant)
  registered,             \* number of registrations after construction
  requests,               \* what callers asked for: Http.request and handle calls
  backendCalls,           \* the PromiseFetchBackend.handle calls made so far
  ngDevMode,              \* the build's ngDevMode
  fetchBackendWarningDisplayed,  \* the module-level flag of the SSR warning
  constructions,          \* history: the HttpInterceptorHandler constructions
  features,               \* the arguments of a provideClientHydration call
  providers,              \* what that call returned
  dayPeriodArgs,          \* the arguments of a getDateTranslation call
  translation,            \* what that call returned
  digitsInfo,             \* the argument of a parseDigitInfo call
  digits                  \* how that call ended

\* The state of the interceptor chain and its callers.
httpVars == <<variant, fns, rootFns, legacyFns, contributeToStability, chain,
              buildCount, legacyChain, pendingTasks, addCalls, removeCalls,
              calls, subs, promises, registered, requests, backendCalls>>
\* The state of the one-time backend warning.
warningVars == <<ngDevMode, fetchBackendWarningDisplayed, constructions>>
\* The calls of the hydration and i18n helpers.
helperVars == <<features, providers, dayPeriodArgs, translation, digitsInfo, digits>>

vars == <<httpVars, warningVars, helperVars>>

\* No call made yet.
NotCalled == [called |-> FALSE]
\* The Dispatcher was constructed without a warning; no helper was called.
WarningIdle ==
  /\ ngDevMode = "true"
  /\ fetchBackendWarningDisplayed = FALSE
  /\ constructions = <<>>
HelpersIdle ==
  /\ features = <<>>
  /\ providers = NotCalled
  /\ dayPeriodArgs = NotCalled
  /\ translation = NotCalled
  /\ digitsInfo = NotCalled
  /\ digits = NotCalled

\* chain === null
NullChain == [built |-> FALSE, entries |-> <<>>]
BuiltChain(es) == [built |-> TRUE, entries |-> es]
\* The chain cell of legacyInterceptorFnFactory: null, or the chain folded
\* from the interceptors read then.  History: how often the cell was
\* assigned, and the handle call whose invocation assigned it.
NullLegacyChain == [built |-> FALSE, entries |-> <<>>, builds |-> 0, builder |-> 0]
BuiltLegacyChain(cell, es, inv) ==
  [built |-> TRUE, entries |-> es, builds |-> cell.builds + 1, builder |-> inv]

(* ---------------------- the pending-task registry ---------------------- *)
\* PendingTasks.add(): a fresh token enters the registry.
NewToken(m) == Len(m.removeCalls) + 1
Add(m) ==
  [m EXCEPT !.pending = @ \cup {NewToken(m)},
            !.addCalls = @ + 1,
            !.removeCalls = Append(@, 0)]
\* PendingTasks.remove(token): the token leaves the registry.
Remove(m, token) ==
  [m EXCEPT !.pending = @ \ {token},
            !.removeCalls[token] = @ + 1]

\* The machine at the start of a synchronous run; inv: the handle call on
\* whose behalf it runs.
Machine ==
  [log |-> <<>>, pending |-> pendingTasks, addCalls |-> addCalls,
   removeCalls |-> removeCalls, legacyChain |-> legacyChain, inv |-> 0]
MachineOf(c) == [Machine EXCEPT !.inv = c]

(* ---------------------------- chain building --------------------------- *)
\* A faulty de-duplication: the last occurrence is the one kept.
RECURSIVE DedupKeepLast(_)
DedupKeepLast(list) ==
  IF list = <<>> THEN <<>>
  ELSE LET rest == DedupKeepLast(Tail(list))
       IN IF \E i \in 1..Len(rest) : rest[i] = Head(list) THEN rest
          ELSE <<Head(list)>> \o rest

\* Array.from(new Set(list)): insertion order, first occurrence kept.
RECURSIVE Dedup(_)
Dedup(list) ==
  IF list = <<>> THEN <<>>
  ELSE LET seen == Dedup(SubSeq(list, 1, Len(list) - 1))
           x == list[Len(list)]
       IN IF \E i \in 1..Len(seen) : seen[i] = x THEN seen ELSE Append(seen, x)

\* The list both handlers fold: [...HTTP_INTERCEPTOR_FNS, ...HTTP_ROOT_INTERCEPTOR_FNS].
DedupedInterceptorFns(f, r) == Dedup(f \o r)

(* --------------------------- chain invocation -------------------------- *)
\* What invoking a chain function returns: the machine after the call,
\* whether the call threw, and the Observable it returned (a pipe).
Returned(m, pipe) == [m |-> m, threw |-> FALSE, pipe |-> pipe]
Threw(m) == [m |-> m, threw |-> TRUE, pipe |-> <<>>]
Wrap(r, layer) == IF r.threw THEN r ELSE [r EXCEPT !.pipe = <<layer>> \o @]

\* A faulty end of the chain: it calls the final handler twice.
InterceptorChainEndTwice(req, m) ==
  Returned(Log(Log(m, "backend", "", req), "backend", "", req), <<BackendSrc(req)>>)
\* interceptorChainEndFn: finalHandlerFn(req), here backend.handle(req).
InterceptorChainEndFn(req, m) ==
  Returned(Log(m, "backend", "", req), <<BackendSrc(req)>>)

\* A faulty fold: the continuation skips a stage.
ChainTailSkip(i) == i + 2
\* The index of the stage a continuation given to stage i invokes.
ChainTail(i) == i + 1

RECURSIVE ChainedInterceptorFn(_, _, _, _), AdaptLegacyInterceptorToChain(_, _, _, _, _)

\* A faulty continuation: it forwards the stage's own request instead of the
\* one the entry passed down.
NextInitialRequest(i, initialRequest, downstreamRequest, es, m) ==
  ChainedInterceptorFn(ChainTail(i), initialRequest, es, m)
\* The continuation chainedInterceptorFn hands to entry i:
\* (downstreamRequest) => chainTailFn(downstreamRequest, finalHandlerFn).
NextHandler(i, initialRequest, downstreamRequest, es, m) ==
  ChainedInterceptorFn(ChainTail(i), downstreamRequest, es,
                       Log(m, "next", es[i], downstreamRequest))

\* The handler a legacy chain delegates to at its end, as made for handle
\* call inv.
HandlerItem(req, inv) == [k |-> "handler", e |-> "legacy", r |-> req, inv |-> inv]
\* A faulty legacy chain: its end keeps the handler of the invocation that
\* built the chain.
LegacyChainEndStale(req, i, es, m) ==
  ChainedInterceptorFn(ChainTail(i), req, es,
    [m EXCEPT !.log = Append(@, HandlerItem(req, m.legacyChain.builder))])
\* interceptorChainEndFn at the end of the legacy chain: finalHandlerFn is
\* the handler argument of this invocation, i.e. the continuation of the
\* legacy entry at index i of the outer chain.
LegacyChainEnd(req, i, es, m) ==
  ChainedInterceptorFn(ChainTail(i), req, es,
    [m EXCEPT !.log = Append(@, HandlerItem(req, m.inv))])

\* adaptLegacyInterceptorToChain: interceptor.intercept(req, {handle: tail});
\* past the last legacy interceptor, the end of the chain.
AdaptLegacyInterceptorToChain(j, req, i, es, m) ==
  IF j > Len(m.legacyChain.entries) THEN LegacyChainEnd(req, i, es, m)
  ELSE LET l == m.legacyChain.entries[j]
       IN Wrap(AdaptLegacyInterceptorToChain(j + 1, req, i, es, Log(m, "enter", l, req)), Tap(l))

\* A faulty legacy entry: it tracks a pending task whatever the flag says.
LegacyAlwaysTracked(i, req, es, m) ==
  LET m1 == IF m.legacyChain.built THEN m
            ELSE [m EXCEPT !.legacyChain = BuiltLegacyChain(@, legacyFns, m.inv)]
      m2 == Log(m1, "enter", "legacy", req)
  IN Wrap(AdaptLegacyInterceptorToChain(1, req, i, es, Add(m2)), Finalize(NewToken(m2)))

\* The function legacyInterceptorFnFactory returns, invoked as the entry at
\* index i: builds its chain on first use, then runs it, tracked by a
\* pending task when requests contribute to stability.
LegacyInterceptorFn(i, req, es, m) ==
  LET m1 == IF m.legacyChain.built THEN m
            ELSE [m EXCEPT !.legacyChain = BuiltLegacyChain(@, legacyFns, m.inv)]
      m2 == Log(m1, "enter", "legacy", req)
  IN IF contributeToStability
     THEN LET taskId == NewToken(m2)
          IN Wrap(AdaptLegacyInterceptorToChain(1, req, i, es, Add(m2)), Finalize(taskId))
     ELSE AdaptLegacyInterceptorToChain(1, req, i, es, m2)

\* The body of a next-based entry e at index i.
InterceptorFn(e, i, req, es, m) ==
  IF e \in Adders THEN Wrap(NextHandler(i, req, AddHeader(e, req), es, m), Tap(e))
  ELSE IF e = "short" THEN Returned(m, <<OfSrc(e)>>)
  ELSE IF e = "throw" THEN Threw(m)
  ELSE IF e \in RetryEntries
  THEN Wrap(NextHandler(i, req, req, es, m), CatchError(e, i, req))
  ELSE LegacyInterceptorFn(i, req, es, m)

\* chainedInterceptorFn: stage i of the chain over entries es, called with req.
\* A callback-based entry gives a new Observable and runs nothing yet; a
\* next-based entry is called at once.
ChainedInterceptorFn(i, req, es, m) ==
  IF i > Len(es) THEN InterceptorChainEndFn(req, m)
  ELSE IF Kind(es[i]) = "ev" THEN Returned(m, <<EvStage(es[i], i, req)>>)
  ELSE IF es[i] = "legacy" THEN InterceptorFn(es[i], i, req, es, m)
  ELSE InterceptorFn(es[i], i, req, es, Log(m, "enter", es[i], req))

(* ----------------------------- subscriptions --------------------------- *)
\* A live subscription: its layers (outermost first), the state of the
\* backend source under them, what the caller's subscriber is in and got.
NewSub(c, m) ==
  [call |-> c, layers |-> <<>>, src |-> "none", breq |-> {},
   status |-> "active", delivered |-> <<>>, m |-> m]

CloseLayer(st, d) == [st EXCEPT !.layers[d].closed = TRUE]
StLog(st, k, e, r) == [st EXCEPT !.m = Log(@, k, e, r)]

\* finalize(callback): the callback runs when the subscriber is torn down.
RunFinalize(st, L) == [st EXCEPT !.m = Remove(@, L.token)]

\* What the caller's subscriber does with a notification.
Caller(st, sig) ==
  IF st.status # "active" THEN st
  ELSE IF IsTerminal(sig)
       THEN StLog([st EXCEPT !.status = sig.type], "caller", sig.type, {})
       ELSE StLog([st EXCEPT !.delivered = Append(@, sig)], "caller", sig.type, sig.body)

RECURSIVE Up(_, _, _), Resolve(_, _, _)

\* subscriber.next(event) of the stage at layer d: the stage's subscriber
\* takes nothing once it is closed.
Forward(st, d, sig) ==
  IF st.layers[d].closed THEN st
  ELSE Up([st EXCEPT !.m.log = Append(@, EvItem("fwd", st.layers[d].e, sig))], d - 1, sig)

\* A faulty emit callback: it forwards the response and never completes.
EmitNoComplete(st, d, sig) ==
  IF sig.type = "error" THEN StLog(st, "unhandled", st.layers[d].e, {})
  ELSE IF sig.type = "complete" THEN st
  ELSE Forward([st EXCEPT !.m.log = Append(@, EvItem("emit", st.layers[d].e, sig))], d, sig)

\* A faulty emit callback: it passes on responses only.
EmitResponsesOnly(st, d, sig) ==
  IF sig.type = "error" THEN StLog(st, "unhandled", st.layers[d].e, {})
  ELSE IF sig.type = "complete" THEN st
  ELSE LET called == [st EXCEPT !.m.log = Append(@, EvItem("emit", st.layers[d].e, sig))]
       IN IF sig.type # "Response" \/ st.layers[d].closed THEN called
          ELSE Up(CloseLayer(Forward(called, d, sig), d), d - 1, CompleteSig)

\* The emit callback of a callback-based stage (layer d):
\* subscriber.next(event); if the event is an HttpResponse, subscriber.complete().
\* The stage passes next(..).subscribe no error and no complete handler.
Emit(st, d, sig) ==
  IF sig.type = "error" THEN StLog(st, "unhandled", st.layers[d].e, {})
  ELSE IF sig.type = "complete" THEN st
  ELSE LET called == [st EXCEPT !.m.log = Append(@, EvItem("emit", st.layers[d].e, sig))]
       IN IF sig.type = "Response" /\ ~st.layers[d].closed
          THEN LET seen == StLog(called, "seen", st.layers[d].e, sig.body)
               IN Up(CloseLayer(Forward(seen, d, sig), d), d - 1, CompleteSig)
          ELSE Forward(called, d, sig)

\* A faulty second call of the continuation: the entries in between are used
\* up, the call goes to the backend.
CaughtNextToBackend(L, es, m) == InterceptorChainEndFn(L.req, m)
\* The continuation of the entry at index L.idx, called again by the
\* selector of its catchError: the same closure as the first time.
CaughtNext(L, es, m) == NextHandler(L.idx, L.req, L.req, es, m)

\* catchError at layer d takes an error: what was subscribed below is gone,
\* the Observable the selector returns is subscribed in its place, and the
\* operator passes on whatever that one produces.
Caught(st, d, L, es) ==
  LET r == CaughtNext(L, es, st.m)
      st1 == [st EXCEPT !.m = r.m,
                        !.layers = Append(SubSeq(@, 1, d - 1), [L EXCEPT !.op = "caught"])]
  IN IF r.threw THEN Up(CloseLayer(st1, d), d - 1, ErrorSig)
     ELSE Resolve(st1, r.pipe, es)

\* A notification arriving from below at layer d (0 is the caller).
Up(st, d, sig) ==
  IF d = 0 THEN Caller(st, sig)
  ELSE LET L == st.layers[d]
       IN IF L.op = "evf" THEN Emit(st, d, sig)
          ELSE IF L.closed THEN st
          ELSE IF L.op = "finalize"
               THEN IF IsTerminal(sig)
                    THEN RunFinalize(Up(CloseLayer(st, d), d - 1, sig), L)
                    ELSE Up(st, d - 1, sig)
          ELSE IF L.op = "catch" /\ sig.type = "error"
               THEN Caught(st, d, L, chain.entries)
          ELSE \* tap: the entry observes the response passing back
               LET seen == IF sig.type = "Response"
                           THEN StLog(st, "seen", L.e, sig.body) ELSE st
               IN Up(IF IsTerminal(sig) THEN CloseLayer(seen, d) ELSE seen, d - 1, sig)

RECURSIVE EmitAll(_, _, _)
\* The entry at layer d calls emit with each of evs in turn.
EmitAll(st, d, evs) ==
  IF evs = <<>> THEN st ELSE EmitAll(Up(st, d, Head(evs)), d, Tail(evs))

\* A faulty stage: it runs the rest of the chain itself, whether or not the
\* entry calls its continuation.
EventInterceptorEager(st, d, L, es) ==
  LET own == IF L.e = "evFwd" THEN Up(st, d, SentEv) ELSE Up(st, d, OwnResponse(L.e))
      r == NextHandler(L.idx, L.req, L.req, es, own.m)
      st2 == [own EXCEPT !.m = r.m]
  IN IF r.threw THEN Up(CloseLayer(st2, d), d - 1, ErrorSig)
     ELSE Resolve(st2, r.pipe, es)

\* The eventInterceptor of callback-based entry L.e, run inside the subscribe
\* routine of its stage (live layer d); an exception it raises becomes
\* subscriber.error.
EventInterceptor(st, d, L, es) ==
  IF L.e = "evFwd"
  THEN LET sent == Up(st, d, SentEv)
           r == NextHandler(L.idx, L.req, L.req, es, sent.m)
           st2 == [sent EXCEPT !.m = r.m]
       IN IF r.threw THEN Up(CloseLayer(st2, d), d - 1, ErrorSig)
          ELSE Resolve(st2, r.pipe, es)
  ELSE IF L.e \in BurstEntries THEN EmitAll(st, d, BurstEvents(L.e))
  ELSE Up(st, d, OwnResponse(L.e))

\* Subscribing to a pipe, the subscriber being the innermost live layer of st.
Resolve(st, pipe, es) ==
  LET L == Head(pipe)
      d == Len(st.layers)
  IN IF L.op \in {"tap", "finalize", "catch"}
     THEN Resolve([st EXCEPT !.layers = Append(@, L)], Tail(pipe), es)
     ELSE IF L.op = "backend"
     THEN StLog([st EXCEPT !.src = "pending", !.breq = L.req], "bsub", "", L.req)
     ELSE IF L.op = "of"
     THEN Up(Up(st, d, OwnResponse(L.e)), d, CompleteSig)
     ELSE \* "ev": new Observable(subscriber => eventInterceptor(...))
          EventInterceptor(
            StLog([st EXCEPT !.layers = Append(@, [L EXCEPT !.op = "evf"])],
                  "enter", L.e, L.req),
            d + 1, L, es)

RECURSIVE TeardownThroughStage(_, _)
\* A faulty stage that returns its downstream subscription as its teardown.
TeardownThroughStage(st, d) ==
  IF d > Len(st.layers)
  THEN IF st.src = "pending" THEN [st EXCEPT !.src = "cancelled"] ELSE st
  ELSE LET L == st.layers[d]
           st1 == IF L.closed THEN st
                  ELSE IF L.op = "finalize" THEN RunFinalize(CloseLayer(st, d), L)
                  ELSE CloseLayer(st, d)
       IN TeardownThroughStage(st1, d + 1)

RECURSIVE TeardownFrom(_, _)
\* Unsubscribing tears the layers down from the caller inwards.  A
\* callback-based stage returns no teardown: what it subscribed to lives on.
TeardownFrom(st, d) ==
  IF d > Len(st.layers)
  THEN IF st.src = "pending" THEN [st EXCEPT !.src = "cancelled"] ELSE st
  ELSE LET L == st.layers[d]
           st1 == IF L.closed THEN st
                  ELSE IF L.op = "finalize" THEN RunFinalize(CloseLayer(st, d), L)
                  ELSE CloseLayer(st, d)
       IN IF L.op = "evf" THEN st1 ELSE TeardownFrom(st1, d + 1)

Teardown(st) == TeardownFrom([st EXCEPT !.status = "unsubscribed"], 1)

(* ------------------- the stream variant: the Dispatcher ---------------- *)
\* A stored subscription and the live one a step works on.
Live(s) ==
  [call |-> subs[s].call, layers |-> subs[s].layers, src |-> subs[s].src,
   breq |-> subs[s].breq, status |-> subs[s].status,
   delivered |-> subs[s].delivered,
   m |-> [MachineOf(subs[s].call) EXCEPT !.log = subs[s].log]]
Stored(st) ==
  [call |-> st.call, layers |-> st.layers, src |-> st.src, breq |-> st.breq,
   status |-> st.status, delivered |-> st.delivered, log |-> st.m.log]

\* What a synchronous run leaves in the registry and the legacy chain cell.
Commit(m) ==
  /\ pendingTasks' = m.pending
  /\ addCalls' = m.addCalls
  /\ removeCalls' = m.removeCalls
  /\ legacyChain' = m.legacyChain

\* A faulty handle: it folds the registered lists anew on every call.
HandleChainRebuild(ch, f, r) == DedupedInterceptorFns(f, r)
\* if (this.chain === null) { this.chain = fold(dedupedInterceptorFns) }
HandleChain(ch, f, r) ==
  IF ch.built THEN ch.entries ELSE DedupedInterceptorFns(f, r)

\* A faulty tail of handle: the token is acquired and never released.
DispatchNoFinalize(req, es, flag, m) ==
  IF flag THEN ChainedInterceptorFn(1, req, es, Add(m)) ELSE ChainedInterceptorFn(1, req, es, m)

DispatchAddTwice(req, es, flag, m) ==
  IF flag
  THEN Wrap(ChainedInterceptorFn(1, req, es, Add(Add(m))), Finalize(NewToken(m)))
  ELSE ChainedInterceptorFn(1, req, es, m)

\* The tail of handle: with the stability flag, add() and then
\* chain(..).pipe(finalize(remove)); without it, chain(..) alone.
Dispatch(req, es, flag, m) ==
  IF flag
  THEN Wrap(ChainedInterceptorFn(1, req, es, Add(m)), Finalize(NewToken(m)))
  ELSE ChainedInterceptorFn(1, req, es, m)

\* HttpInterceptorHandler.handle(initialRequest) of rxjs-interop.
StreamHandle(req) ==
  /\ variant = "stream"
  /\ Len(calls) < MaxCalls
  /\ LET es == HandleChain(chain, fns, rootFns)
         r == Dispatch(req, es, contributeToStability, MachineOf(Len(calls) + 1))
     IN /\ chain' = BuiltChain(es)
        /\ buildCount' = IF chain.built THEN buildCount ELSE buildCount + 1
        /\ calls' = Append(calls,
             [req |-> req, entries |-> es, read |-> fns \o rootFns,
              token |-> IF contributeToStability THEN NewToken(Machine) ELSE 0,
              threw |-> r.threw, pipe |-> r.pipe, log |-> r.m.log])
        /\ Commit(r.m)
  /\ UNCHANGED <<warningVars, helperVars, requests, backendCalls,
                 variant, fns, rootFns, legacyFns, contributeToStability,
                 subs, promises, registered>>

\* The caller subscribes to the stream handle call c returned.
Subscribe(c) ==
  /\ variant = "stream"
  /\ c \in 1..Len(calls)
  /\ ~calls[c].threw
  /\ Len(subs) < MaxSubs
  /\ LET st == Resolve(NewSub(c, MachineOf(c)), calls[c].pipe, chain.entries)
     IN /\ subs' = Append(subs, Stored(st))
        /\ Commit(st.m)
  /\ UNCHANGED <<warningVars, helperVars, requests, backendCalls,
                 variant, fns, rootFns, legacyFns, contributeToStability,
                 chain, buildCount, calls, promises, registered>>

\* What the backend's stream does to the live subscription st when it
\* delivers the response and completes, and when it errors.
Responded(st) ==
  LET st0 == [st EXCEPT !.src = "done"]
      d == Len(st0.layers)
  IN Up(Up(st0, d, EchoResponse(st0.breq)), d, CompleteSig)
Failed(st) ==
  LET st0 == [st EXCEPT !.src = "failed"]
  IN Up(st0, Len(st0.layers), ErrorSig)

\* The transport backend delivers its response and completes.
BackendRespond(s) ==
  /\ s \in 1..Len(subs)
  /\ subs[s].src = "pending"
  /\ LET st == Responded(Live(s))
     IN /\ subs' = [subs EXCEPT ![s] = Stored(st)]
        /\ Commit(st.m)
  /\ UNCHANGED <<warningVars, helperVars, requests, backendCalls,
                 variant, fns, rootFns, legacyFns, contributeToStability,
                 chain, buildCount, calls, promises, registered>>

\* The transport backend fails.
BackendFail(s) ==
  /\ s \in 1..Len(subs)
  /\ subs[s].src = "pending"
  /\ LET st == Failed(Live(s))
     IN /\ subs' = [subs EXCEPT ![s] = Stored(st)]
        /\ Commit(st.m)
  /\ UNCHANGED <<warningVars, helperVars, requests, backendCalls,
                 variant, fns, rootFns, legacyFns, contributeToStability,
                 chain, buildCount, calls, promises, registered>>

\* The caller unsubscribes before the stream terminated.
Unsubscribe(s) ==
  /\ s \in 1..Len(subs)
  /\ subs[s].status = "active"
  /\ LET st == Teardown(Live(s))
     IN /\ subs' = [subs EXCEPT ![s] = Stored(st)]
        /\ Commit(st.m)
  /\ UNCHANGED <<warningVars, helperVars, requests, backendCalls,
                 variant, fns, rootFns, legacyFns, contributeToStability,
                 chain, buildCount, calls, promises, registered>>

\* An entry is added to HTTP_INTERCEPTOR_FNS after the Dispatcher was first
\* used (the lists of Init are the registrations made before), while a
\* handle call can still follow.
Register(e) ==
  /\ registered < MaxRegister
  /\ Len(calls) + Len(promises) >= 1
  /\ Len(calls) + Len(promises) < MaxCalls
  /\ registered' = registered + 1
  /\ fns' = Append(fns, e)
  /\ UNCHANGED <<warningVars, helperVars, requests, backendCalls,
                 variant, rootFns, legacyFns, contributeToStability, chain, buildCount,
                 legacyChain, pendingTasks, addCalls, removeCalls, calls, subs,
                 promises>>

(* ------------------ the single-shot variant: the Dispatcher ------------ *)
\* The entries as written for this variant's continuation
\* next(req, onEvent): an adder returns next(req.clone(+header)), passing no
\* onEvent; "short" returns a response of its own; "throw" throws; "evFwd"
\* calls onEvent(Sent) and returns next(req, onEvent); "evShort" calls
\* onEvent(its own response).  Further, for the asynchronous scenarios:
\* "evVoid" calls onEvent(Sent), calls next(req, onEvent) and returns nothing,
\* as the declared type of eventInterceptor has it; "retry" awaits next(req)
\* and, when that rejects, returns next(req); "slow" awaits work of its own
\* and then returns next(req); "evSlow" awaits work of its own and then
\* returns next(req, onEvent).
SlowEntries == {"slow", "evSlow"}
VoidEntries == {"evVoid"}
SingleInputs == {"addA", "evFwd"} \cup VoidEntries \cup RetryEntries \cup SlowEntries
\* Entries that call next once, catch nothing and change no event.
SingleForwarders == Adders \cup {"evFwd"} \cup VoidEntries \cup SlowEntries

\* An async frame: a next-based entry whose result the call of next that
\* invoked it awaits; cb tells whether that call's onEvent is defined; a
\* "retry" frame also holds its place in the list and the request for its
\* second call of next.
Frame(kind, cb, req) ==
  [kind |-> kind, cb |-> cb, req |-> req, idx |-> 0, tried |-> FALSE]
\* An entry suspended in work of its own before it calls next.
NoSuspension == [on |-> FALSE, e |-> "", req |-> {}, cb |-> FALSE]
Suspension(e, req, cb) == [on |-> TRUE, e |-> e, req |-> req, cb |-> cb]

\* A faulty handle: the cursor is kept in the Dispatcher, a call starts where
\* the call before it left the cursor.
NewPromiseSharedCursor(req, es) ==
  [req |-> req, entries |-> es, read |-> fns \o rootFns,
   index |-> IF promises = <<>> THEN -1 ELSE promises[Len(promises)].index,
   log |-> <<>>, delivered |-> <<>>, late |-> <<>>,
   frames |-> <<>>, susp |-> NoSuspension, detached |-> FALSE,
   bstate |-> "none", breq |-> {}, bcb |-> FALSE,
   state |-> "pending"]

\* A call: the list it read, its cursor, the async frames still waiting
\* (outermost first), the backend call under way, and the state of the
\* promise handle returned.  detached: the promise of the chain still
\* running was dropped by an entry; late: the events given to the caller's
\* onEvent after the promise of handle had settled.
NewPromise(req, es) ==
  [req |-> req, entries |-> es, read |-> fns \o rootFns, index |-> -1,
   log |-> <<>>, delivered |-> <<>>, late |-> <<>>,
   frames |-> <<>>, susp |-> NoSuspension, detached |-> FALSE,
   bstate |-> "none", breq |-> {}, bcb |-> FALSE,
   state |-> "pending"]

PLog(c, k, e, r) == [c EXCEPT !.log = Append(@, Item(k, e, r))]

\* onEvent(event) at a level: the caller's callback when defined, a
\* TypeError otherwise.  Gives the call and whether the level went on.
OnEvent(c, cb, ev) ==
  IF cb THEN [c |-> [c EXCEPT !.delivered = Append(@, ev),
                              !.late = IF c.state = "pending" THEN @ ELSE Append(@, ev)],
              ok |-> TRUE]
  ELSE [c |-> PLog(c, "typeerror", "", {}), ok |-> FALSE]

\* A faulty cursor step: it passes over an entry.
CursorSkip(index) == index + 2
\* index++
Cursor(index) == index + 1

\* Nothing waits any more: the promise of handle settles, unless the chain
\* that ended was detached from it, whose rejection nobody handles.
Settle(c, ok) ==
  IF c.detached THEN (IF ok THEN c ELSE PLog(c, "unhandledrejection", "", {}))
  ELSE [c EXCEPT !.state = IF ok THEN "resolved" ELSE "rejected"]

RECURSIVE Unwind(_, _), SingleNext(_, _, _)
\* An awaited continuation settled: each waiting frame, innermost first, does
\* onEvent(response) with what its interceptor resolved to (nothing, as next
\* resolves to void), or rejects in turn; a "retry" frame takes the first
\* rejection by calling next again.
Unwind(c, ok) ==
  IF c.frames = <<>> THEN Settle(c, ok)
  ELSE LET f == c.frames[Len(c.frames)]
           c1 == [c EXCEPT !.frames = SubSeq(@, 1, Len(@) - 1)]
       IN IF ok
          THEN LET r == OnEvent(c1, f.cb, Ev("undefined", {})) IN Unwind(r.c, r.ok)
          ELSE IF f.kind = "retry" /\ ~f.tried
          THEN SingleNext(PLog([c EXCEPT !.frames[Len(c.frames)].tried = TRUE],
                               "next", c.entries[f.idx], f.req),
                          f.req, FALSE)
          ELSE Unwind(c1, FALSE)

\* An entry drops the promise of the continuation it called: what waited on
\* the entry goes on as if the entry were done, the continuation runs on
\* its own.
Detach(c) == [Unwind(c, TRUE) EXCEPT !.detached = TRUE, !.frames = <<>>]

\* next(req, onEvent): index++, then the entry under the cursor or, past the
\* last entry, backend.handle(req, onEvent).
SingleNext(c, req, cb) ==
  LET c1 == [c EXCEPT !.index = Cursor(@)]
  IN IF c1.index < Len(c1.entries)
     THEN LET e == c1.entries[c1.index + 1]
              c2 == PLog(c1, "enter", e, req)
              awaited(kind) == [c2 EXCEPT !.frames =
                                  Append(@, [Frame(kind, cb, req) EXCEPT !.idx = c1.index + 1])]
          IN IF e \in Adders
             THEN SingleNext(PLog(awaited("fn"), "next", e, AddHeader(e, req)),
                             AddHeader(e, req), FALSE)
             ELSE IF e \in RetryEntries
             THEN SingleNext(PLog(awaited("retry"), "next", e, req), req, FALSE)
             ELSE IF e = "slow"
             THEN [awaited("fn") EXCEPT !.susp = Suspension(e, req, FALSE)]
             ELSE IF e = "evSlow"
             THEN [c2 EXCEPT !.susp = Suspension(e, req, cb)]
             ELSE IF e = "short"
             THEN LET r == OnEvent(c2, cb, OwnResponse(e)) IN Unwind(r.c, r.ok)
             ELSE IF e = "evFwd"
             THEN LET r == OnEvent(c2, cb, SentEv)
                  IN IF r.ok THEN SingleNext(PLog(r.c, "next", e, req), req, cb)
                     ELSE Unwind(r.c, FALSE)
             ELSE IF e \in VoidEntries
             THEN LET r == OnEvent(c2, cb, SentEv)
                  IN IF r.ok THEN SingleNext(PLog(Detach(r.c), "next", e, req), req, cb)
                     ELSE Unwind(r.c, FALSE)
             ELSE IF e = "evShort"
             THEN LET r == OnEvent(c2, cb, OwnResponse(e)) IN Unwind(r.c, r.ok)
             ELSE Unwind(c2, FALSE)
     ELSE [PLog(c1, "backend", "", req) EXCEPT
             !.bstate = "pending", !.breq = req, !.bcb = cb]

\* The list a handle call of the single-shot variant dispatches over.
SingleEntries(f, r) == DedupedInterceptorFns(f, r)

\* HttpInterceptorHandler.handle(request, onEvent) of the promise variant.
SingleHandle(req) ==
  /\ variant = "single"
  /\ Len(promises) < MaxCalls
  /\ promises' = Append(promises,
        SingleNext(NewPromise(req, SingleEntries(fns, rootFns)), req, TRUE))
  /\ UNCHANGED <<warningVars, helperVars, requests, backendCalls,
                 variant, fns, rootFns, legacyFns, contributeToStability,
                 chain, buildCount, legacyChain, pendingTasks, addCalls,
                 removeCalls, calls, subs, registered>>

\* What call c becomes when its suspended entry goes on and calls next, when
\* its backend call delivers the response, and when its backend call rejects.
Resumed(c) ==
  LET w == c.susp
  IN SingleNext(PLog([c EXCEPT !.susp = NoSuspension], "next", w.e, w.req), w.req, w.cb)
BackendDelivered(c, response) ==
  LET c1 == [c EXCEPT !.bstate = "done"]
      r == OnEvent(c1, c1.bcb, response)
  IN Unwind(r.c, r.ok)
BackendResolved(c) == BackendDelivered(c, EchoResponse(c.breq))
BackendRejected(c) == Unwind([c EXCEPT !.bstate = "failed"], FALSE)

\* The work of its own a suspended entry awaited is done: the entry calls next.
SingleResume(k) ==
  /\ k \in 1..Len(promises)
  /\ promises[k].susp.on
  /\ promises' = [promises EXCEPT ![k] = Resumed(promises[k])]
  /\ UNCHANGED <<warningVars, helperVars, requests, backendCalls,
                 variant, fns, rootFns, legacyFns, contributeToStability,
                 chain, buildCount, legacyChain, pendingTasks, addCalls,
                 removeCalls, calls, subs, registered>>

\* PromiseFetchBackend.handle: the request succeeded, onEvent(response).
SingleBackendResolve(k) ==
  /\ k \in 1..Len(promises)
  /\ promises[k].bstate = "pending"
  /\ promises' = [promises EXCEPT ![k] = BackendResolved(promises[k])]
  /\ UNCHANGED <<warningVars, helperVars, requests, backendCalls,
                 variant, fns, rootFns, legacyFns, contributeToStability,
                 chain, buildCount, legacyChain, pendingTasks, addCalls,
                 removeCalls, calls, subs, registered>>

\* PromiseFetchBackend.handle: doRequest rejected.
SingleBackendReject(k) ==
  /\ k \in 1..Len(promises)
  /\ promises[k].bstate = "pending"
  /\ promises' = [promises EXCEPT ![k] = BackendRejected(promises[k])]
  /\ UNCHANGED <<warningVars, helperVars, requests, backendCalls,
                 variant, fns, rootFns, legacyFns, contributeToStability,
                 chain, buildCount, legacyChain, pendingTasks, addCalls,
                 removeCalls, calls, subs, registered>>

\* A class-based interceptor is added to HTTP_INTERCEPTORS while a handle
\* call can still follow.
RegisterLegacy(l) ==
  /\ registered < MaxRegister
  /\ Len(calls) < MaxCalls
  /\ \A j \in 1..Len(legacyFns) : legacyFns[j] # l
  /\ registered' = registered + 1
  /\ legacyFns' = Append(legacyFns, l)
  /\ UNCHANGED <<warningVars, helperVars, requests, backendCalls,
                 variant, fns, rootFns, contributeToStability, chain, buildCount,
                 legacyChain, pendingTasks, addCalls, removeCalls, calls, subs,
                 promises>>

(* -------------------- PromiseFetchBackend and Http.request ------------- *)
\* request.responseType
ResponseTypes == {"json", "text", "blob", "arraybuffer"}
\* The abort signal a caller has for a request: none, or one.
NoSignal == "undefined"
SignalInputs == {NoSignal, "signal"}
\* request.urlWithParams
RequestUrl == "/request"

\* What fetch resolves to: the raw status; the body (no body stream, a stream
\* that fails to load, or bytes: none, an XSSI prefix only, well-formed JSON
\* text of an object, other text); where the URL can be read from (the
\* response's url, the X-Request-URL header, neither).
StatusInputs == {0, 199, 200, 299, 300, 500}
BodyInputs == {"none", "loadfail", "empty", "xssi", "valid", "malformed"}
UrlInputs == {"url", "header", "none"}
FetchResponses == [status : StatusInputs, body : BodyInputs, url : UrlInputs]
\* What fetch rejects with: an error without a status, or one with a status.
NoStatus == -1
FetchErrors == {NoStatus, 503}

HTTP_STATUS_CODE_OK == 200

\* new HttpHeaders(response.headers)
ResponseHeaders(out) ==
  IF out.url = "header" THEN {<<"x-request-url", "/header-url">>} ELSE {}
\* getResponseUrl(response) ?? request.urlWithParams
GetResponseUrl(out) ==
  IF out.url = "url" THEN "/response-url"
  ELSE IF \E h \in ResponseHeaders(out) : h[1] = "x-request-url"
       THEN (CHOOSE h \in ResponseHeaders(out) : h[1] = "x-request-url")[2]
       ELSE RequestUrl

\* Body values and JavaScript truthiness of them.
NullBody == [kind |-> "null", bytes |-> "none"]
Body(kind, bytes) == [kind |-> kind, bytes |-> bytes]
Truthy(body) == body.kind # "null" /\ ~(body.kind = "string" /\ body.bytes = "empty")

\* parseBody(request, binContent, contentType): the body, or an exception.
ParseBody(rt, bytes) ==
  IF rt = "json"
  THEN IF bytes \in {"empty", "xssi"} THEN [threw |-> FALSE, body |-> NullBody]
       ELSE IF bytes = "valid" THEN [threw |-> FALSE, body |-> Body("object", bytes)]
       ELSE [threw |-> TRUE, body |-> NullBody]
  ELSE IF rt = "text" THEN [threw |-> FALSE, body |-> Body("string", bytes)]
  ELSE IF rt = "blob" THEN [threw |-> FALSE, body |-> Body("blob", bytes)]
  ELSE [threw |-> FALSE, body |-> Body("arraybuffer", bytes)]

HttpResponse(body, headers, status, url) ==
  [type |-> "Response", body |-> body, headers |-> headers, status |-> status, url |-> url]
HttpErrorResponse(error, headers, status, url) ==
  [type |-> "HttpErrorResponse", error |-> error, headers |-> headers,
   status |-> status, url |-> url]
Fulfilled(response) == [ok |-> TRUE, value |-> response]
Rejected(error) == [ok |-> FALSE, value |-> error]

\* A faulty test of the status: 200 itself is left out.
OkAbove200(status) == status > 200 /\ status < 300
\* const ok = status >= 200 && status < 300
Ok(status) == status >= 200 /\ status < 300

\* A faulty handling of a body that cannot be loaded or parsed: the request
\* goes on without a body.
BodyFailedIgnored(out) == [failed |-> FALSE, body |-> NullBody]
\* The catch around the loading and parsing of the body:
\* throw new HttpErrorResponse({error, headers, status: response.status, ..}).
BodyFailed(out) ==
  [failed |-> TRUE,
   body |-> HttpErrorResponse("cause", ResponseHeaders(out), out.status, GetResponseUrl(out))]

\* if (response.body) { try { body = parseBody(..) } catch .. }
LoadBody(rt, out) ==
  IF out.body = "none" THEN [failed |-> FALSE, body |-> NullBody]
  ELSE IF out.body = "loadfail" THEN BodyFailed(out)
  ELSE LET parsed == ParseBody(rt, out.body)
       IN IF parsed.threw THEN BodyFailed(out)
          ELSE [failed |-> FALSE, body |-> parsed.body]

\* doRequest once fetch has resolved to out.
DoRequest(rt, out) ==
  LET loaded == LoadBody(rt, out)
      headers == ResponseHeaders(out)
      url == GetResponseUrl(out)
      status == IF out.status = 0
                THEN (IF Truthy(loaded.body) THEN HTTP_STATUS_CODE_OK ELSE 0)
                ELSE out.status
  IN IF loaded.failed THEN Rejected(loaded.body)
     ELSE IF Ok(status) THEN Fulfilled(HttpResponse(loaded.body, headers, status, url))
     ELSE Rejected(HttpErrorResponse(loaded.body, headers, status, url))

\* doRequest once fetch has rejected with an error of status s:
\* status: error.status ?? 0, headers: error.headers, url: request.urlWithParams.
DoRequestFailed(s) ==
  Rejected(HttpErrorResponse("cause", {}, IF s = NoStatus THEN 0 ELSE s, RequestUrl))

\* A PromiseFetchBackend.handle(request, onEvent, signal) call under way:
\* doRequest has called fetch with {signal, ...init} and awaits it.  cb:
\* whether onEvent is a function; owner: the entry of requests it serves;
\* fetched: what fetch settled with, once it has; result: what doRequest
\* then returned or threw.
BackendCall(req, rt, cb, signal, owner) ==
  [req |-> req, responseType |-> rt, cb |-> cb, signal |-> signal, owner |-> owner,
   fetches |-> 1, fetchSignal |-> signal, fetched |-> <<>>, result |-> <<>>,
   events |-> <<>>, state |-> "pending", error |-> NullBody]

\* const response = await this.doRequest(request, signal); onEvent(response)
Handled(bc, result) ==
  LET awaited == [bc EXCEPT !.result = <<result>>]
  IN IF ~result.ok THEN [awaited EXCEPT !.state = "rejected", !.error = result.value]
     ELSE IF bc.cb
     THEN [awaited EXCEPT !.events = Append(@, result.value), !.state = "resolved"]
     ELSE [awaited EXCEPT !.state = "rejected", !.error = [type |-> "TypeError"]]

\* What a caller asked for, and by which way: Http.request ("request") or
\* HttpInterceptorHandler.handle ("handle", promise: its place in promises).
Request(via, req, rt, signal, promise) ==
  [via |-> via, req |-> req, responseType |-> rt, signal |-> signal, promise |-> promise,
   state |-> "pending", value |-> NullBody, unhandled |-> FALSE]

\* Http.request(first, url, options) with first a request:
\* new Promise((resolve) => this.backend.handle(req, (event) => resolve(event))).
HttpRequest(req, rt, signal) ==
  /\ Len(requests) < MaxRequests
  /\ requests' = Append(requests, Request("request", req, rt, signal, 0))
  /\ backendCalls' = Append(backendCalls,
        BackendCall(req, rt, TRUE, NoSignal, Len(requests) + 1))
  /\ UNCHANGED <<warningVars, helperVars,
                 variant, fns, rootFns, legacyFns, contributeToStability, chain,
                 buildCount, legacyChain, pendingTasks, addCalls, removeCalls,
                 calls, subs, promises, registered>>

\* A caller that has an abort signal for its request goes through
\* HttpInterceptorHandler.handle(request, onEvent), which takes no signal;
\* next, past the last entry, does this.backend.handle(req, onEvent).
HttpHandle(req, rt, signal) ==
  /\ variant = "single"
  /\ Len(requests) < MaxRequests
  /\ LET c == SingleNext(NewPromise(req, SingleEntries(fns, rootFns)), req, TRUE)
     IN /\ promises' = Append(promises, c)
        /\ requests' = Append(requests,
              Request("handle", req, rt, signal, Len(promises) + 1))
        /\ backendCalls' =
              IF c.bstate = "pending"
              THEN Append(backendCalls,
                     BackendCall(c.breq, rt, c.bcb, NoSignal, Len(requests) + 1))
              ELSE backendCalls
  /\ UNCHANGED <<warningVars, helperVars,
                 variant, fns, rootFns, legacyFns, contributeToStability, chain,
                 buildCount, legacyChain, pendingTasks, addCalls, removeCalls,
                 calls, subs, registered>>

\* The backend call b is over with result: the promise of handle it serves
\* goes on, or the callback Http.request gave resolves its promise; when
\* the call rejected, nothing is attached to it there.
Settled(b, fetched, result) ==
  LET bc == Handled([backendCalls[b] EXCEPT !.fetched = <<fetched>>], result)
      r == bc.owner
      k == requests[r].promise
  IN /\ backendCalls' = [backendCalls EXCEPT ![b] = bc]
     /\ IF requests[r].via = "handle"
        THEN /\ promises' = [promises EXCEPT
                   ![k] = IF result.ok THEN BackendDelivered(promises[k], result.value)
                          ELSE BackendRejected(promises[k])]
             /\ UNCHANGED requests
        ELSE /\ requests' = [requests EXCEPT
                   ![r] = IF bc.state = "resolved"
                          THEN [@ EXCEPT !.state = "resolved", !.value = result.value]
                          ELSE [@ EXCEPT !.unhandled = TRUE]]
             /\ UNCHANGED promises

\* fetch resolves for backend call b.
FetchRespond(b, out) ==
  /\ b \in 1..Len(backendCalls)
  /\ backendCalls[b].state = "pending"
  /\ Settled(b, out, DoRequest(backendCalls[b].responseType, out))
  /\ UNCHANGED <<warningVars, helperVars,
                 variant, fns, rootFns, legacyFns, contributeToStability, chain,
                 buildCount, legacyChain, pendingTasks, addCalls, removeCalls,
                 calls, subs, registered>>

\* fetch rejects for backend call b (network failure, abort).
FetchReject(b, s) ==
  /\ b \in 1..Len(backendCalls)
  /\ backendCalls[b].state = "pending"
  /\ Settled(b, [error |-> s], DoRequestFailed(s))
  /\ UNCHANGED <<warningVars, helperVars,
                 variant, fns, rootFns, legacyFns, contributeToStability, chain,
                 buildCount, legacyChain, pendingTasks, addCalls, removeCalls,
                 calls, subs, registered>>

(* ------------------------------ the system ----------------------------- *)
SeqsUpTo(S, n) == UNION {[1..k -> S] : k \in 0..n}
Range(f) == {f[i] : i \in DOMAIN f}

\* The entries that can be registered with each handler class.
EntriesOf(v) == IF v = "stream" THEN Entries ELSE Entries \ {"legacy"}

Init ==
  /\ variant \in {"stream", "single"}
  /\ fns \in SeqsUpTo(EntriesOf(variant), MaxFns)
  /\ rootFns \in SeqsUpTo(RootInputs, MaxRoot)
  /\ legacyFns \in IF "legacy" \in Range(fns \o rootFns) THEN LegacyInputs ELSE {<<>>}
  /\ contributeToStability \in IF variant = "stream" THEN BOOLEAN ELSE {TRUE}
  /\ chain = NullChain
  /\ buildCount = 0
  /\ legacyChain = NullLegacyChain
  /\ pendingTasks = {}
  /\ addCalls = 0
  /\ removeCalls = <<>>
  /\ calls = <<>>
  /\ subs = <<>>
  /\ promises = <<>>
  /\ registered = 0
  /\ requests = <<>>
  /\ backendCalls = <<>>
  /\ WarningIdle
  /\ HelpersIdle

Next ==
  \/ \E req \in ReqInputs : StreamHandle(req)
  \/ \E c \in 1..MaxCalls : Subscribe(c)
  \/ \E s \in 1..MaxSubs : BackendRespond(s)
  \/ \E s \in 1..MaxSubs : BackendFail(s)
  \/ \E s \in 1..MaxSubs : Unsubscribe(s)
  \/ \E e \in RegisterInputs : Register(e)
  \/ \E req \in ReqInputs : SingleHandle(req)
  \/ \E k \in 1..MaxCalls : SingleBackendResolve(k)
  \/ \E k \in 1..MaxCalls : SingleBackendReject(k)

Spec == Init /\ [][Next]_vars

\* The stream variant over lists with entries that call next again after an
\* error and entries that keep emitting after their response.
StreamInit ==
  /\ variant = "stream"
  /\ fns \in SeqsUpTo(StreamInputs, MaxChain)
  /\ rootFns = <<>>
  /\ legacyFns = <<>>
  /\ contributeToStability \in BOOLEAN
  /\ chain = NullChain
  /\ buildCount = 0
  /\ legacyChain = NullLegacyChain
  /\ pendingTasks = {}
  /\ addCalls = 0
  /\ removeCalls = <<>>
  /\ calls = <<>>
  /\ subs = <<>>
  /\ promises = <<>>
  /\ registered = 0
  /\ requests = <<>>
  /\ backendCalls = <<>>
  /\ WarningIdle
  /\ HelpersIdle

StreamNext ==
  \/ \E req \in ReqInputs : StreamHandle(req)
  \/ \E c \in 1..MaxCalls : Subscribe(c)
  \/ \E s \in 1..MaxSubs : BackendRespond(s)
  \/ \E s \in 1..MaxSubs : BackendFail(s)
  \/ \E s \in 1..MaxSubs : Unsubscribe(s)

StreamSpec == StreamInit /\ [][StreamNext]_vars

\* The single-shot variant over lists with entries that suspend, that call
\* next again after a rejection, and that drop the promise next returned.
SingleInit ==
  /\ variant = "single"
  /\ fns \in SeqsUpTo(SingleInputs, MaxChain)
  /\ rootFns = <<>>
  /\ legacyFns = <<>>
  /\ contributeToStability = TRUE
  /\ chain = NullChain
  /\ buildCount = 0
  /\ legacyChain = NullLegacyChain
  /\ pendingTasks = {}
  /\ addCalls = 0
  /\ removeCalls = <<>>
  /\ calls = <<>>
  /\ subs = <<>>
  /\ promises = <<>>
  /\ registered = 0
  /\ requests = <<>>
  /\ backendCalls = <<>>
  /\ WarningIdle
  /\ HelpersIdle

SingleStep ==
  \/ \E req \in ReqInputs : SingleHandle(req)
  \/ \E k \in 1..MaxCalls : SingleResume(k)
  \/ \E k \in 1..MaxCalls : SingleBackendResolve(k)
  \/ \E k \in 1..MaxCalls : SingleBackendReject(k)

SingleSpec == SingleInit /\ [][SingleStep]_vars

\* Both variants with two handle calls in flight at once: stream lists with
\* a legacy entry, which takes registry tokens of its own, and single-shot
\* lists with an entry that suspends before it calls next.
ConcurrentInputs(v) ==
  IF v = "stream" THEN {"addA", "evFwd", "legacy", "short"} ELSE {"addA", "evFwd", "evSlow"}

ConcurrentInit ==
  /\ variant \in {"stream", "single"}
  /\ fns \in SeqsUpTo(ConcurrentInputs(variant), MaxFns)
  /\ rootFns = <<>>
  /\ legacyFns \in IF "legacy" \in Range(fns) THEN LegacyInputs ELSE {<<>>}
  /\ contributeToStability \in IF variant = "stream" THEN BOOLEAN ELSE {TRUE}
  /\ chain = NullChain
  /\ buildCount = 0
  /\ legacyChain = NullLegacyChain
  /\ pendingTasks = {}
  /\ addCalls = 0
  /\ removeCalls = <<>>
  /\ calls = <<>>
  /\ subs = <<>>
  /\ promises = <<>>
  /\ registered = 0
  /\ requests = <<>>
  /\ backendCalls = <<>>
  /\ WarningIdle
  /\ HelpersIdle

ConcurrentNext ==
  \/ \E req \in ReqInputs : StreamHandle(req)
  \/ \E c \in 1..MaxCalls : Subscribe(c)
  \/ \E s \in 1..MaxSubs : BackendRespond(s)
  \/ \E s \in 1..MaxSubs : BackendFail(s)
  \/ \E s \in 1..MaxSubs : Unsubscribe(s)
  \/ \E req \in ReqInputs : SingleHandle(req)
  \/ \E k \in 1..MaxCalls : SingleResume(k)
  \/ \E k \in 1..MaxCalls : SingleBackendResolve(k)
  \/ \E k \in 1..MaxCalls : SingleBackendReject(k)

ConcurrentSpec == ConcurrentInit /\ [][ConcurrentNext]_vars

\* The stream variant over lists that hold the legacy entry, with up to three
\* class-based interceptors at construction and one registered later.
LegacyLists == {<<>>, <<"la", "lb">>, <<"la", "lb", "lc">>}
LegacyRegisterInputs == {"ld"}
LegacyOuterInputs == {"addA", "evFwd", "legacy"}

LegacyInit ==
  /\ variant = "stream"
  /\ fns \in {f \in SeqsUpTo(LegacyOuterInputs, MaxFns) : "legacy" \in Range(f)}
  /\ rootFns = <<>>
  /\ legacyFns \in LegacyLists
  /\ contributeToStability \in BOOLEAN
  /\ chain = NullChain
  /\ buildCount = 0
  /\ legacyChain = NullLegacyChain
  /\ pendingTasks = {}
  /\ addCalls = 0
  /\ removeCalls = <<>>
  /\ calls = <<>>
  /\ subs = <<>>
  /\ promises = <<>>
  /\ registered = 0
  /\ requests = <<>>
  /\ backendCalls = <<>>
  /\ WarningIdle
  /\ HelpersIdle

LegacyNext ==
  \/ \E req \in ReqInputs : StreamHandle(req)
  \/ \E c \in 1..MaxCalls : Subscribe(c)
  \/ \E s \in 1..MaxSubs : BackendRespond(s)
  \/ \E s \in 1..MaxSubs : BackendFail(s)
  \/ \E s \in 1..MaxSubs : Unsubscribe(s)
  \/ \E l \in LegacyRegisterInputs : RegisterLegacy(l)

LegacySpec == LegacyInit /\ [][LegacyNext]_vars

(* -------------------- the one-time backend warning -------------------- *)
\* typeof ngDevMode === 'undefined' || ngDevMode
NgDevModes == {"undefined", "true", "false"}
DevMode(mode) == mode = "undefined" \/ mode = "true"
\* PLATFORM_ID, and what the constructor asks of its backend:
\* backend instanceof FetchBackend and backend.isTestingBackend.
Platforms == {"server", "browser"}
Backends == [fetch : BOOLEAN, testing : BOOLEAN]

ShouldWarnIgnoringFlag(mode, displayed, platform, backend) ==
  DevMode(mode) /\ platform = "server" /\ ~backend.fetch /\ ~backend.testing

\* The conditions of the constructor under which it prints the warning.
ShouldWarn(mode, displayed, platform, backend) ==
  /\ DevMode(mode) /\ ~displayed
  /\ platform = "server" /\ ~backend.fetch /\ ~backend.testing

\* new HttpInterceptorHandler(backend, injector) on the given platform.
Construct(platform, backend) ==
  /\ Len(constructions) < MaxConstructions
  /\ LET warn == ShouldWarn(ngDevMode, fetchBackendWarningDisplayed, platform, backend)
         displayed == IF warn THEN TRUE ELSE fetchBackendWarningDisplayed
     IN /\ fetchBackendWarningDisplayed' = displayed
        /\ constructions' = Append(constructions,
             [kind |-> "construct", platform |-> platform, backend |-> backend,
              warned |-> warn, displayed |-> displayed])
  /\ UNCHANGED <<httpVars, helperVars, ngDevMode>>

\* resetFetchBackendWarningFlag()
ResetFetchBackendWarningFlag ==
  /\ Len(constructions) < MaxConstructions
  /\ fetchBackendWarningDisplayed' = FALSE
  /\ constructions' = Append(constructions,
       [kind |-> "reset", platform |-> "", backend |-> [fetch |-> FALSE, testing |-> FALSE],
        warned |-> FALSE, displayed |-> FALSE])
  /\ UNCHANGED <<httpVars, helperVars, ngDevMode>>

\* No handle call is made in the scenarios outside the interceptor chain.
HttpIdle ==
  /\ variant = "stream"
  /\ fns = <<>>
  /\ rootFns = <<>>
  /\ legacyFns = <<>>
  /\ contributeToStability = TRUE
  /\ chain = NullChain
  /\ buildCount = 0
  /\ legacyChain = NullLegacyChain
  /\ pendingTasks = {}
  /\ addCalls = 0
  /\ removeCalls = <<>>
  /\ calls = <<>>
  /\ subs = <<>>
  /\ promises = <<>>
  /\ registered = 0
  /\ requests = <<>>
  /\ backendCalls = <<>>

WarningInit ==
  /\ HttpIdle
  /\ HelpersIdle
  /\ ngDevMode \in NgDevModes
  /\ fetchBackendWarningDisplayed = FALSE
  /\ constructions = <<>>

WarningNext ==
  \/ \E platform \in Platforms, backend \in Backends : Construct(platform, backend)
  \/ ResetFetchBackendWarningFlag

WarningSpec == WarningInit /\ [][WarningNext]_vars

(* -------------------- provideClientHydration -------------------------- *)
\* A missing property of a feature, and the callbacks a caller may configure.
Undefined == "undefined"
\* HydrationFeatureKind
NoDomReuseFeature == "NoDomReuseFeature"
NoHttpTransferCache == "NoHttpTransferCache"
HttpTransferCacheOptions == "HttpTransferCacheOptions"

WithNoDomReuse == [kind |-> NoDomReuseFeature, exclude |-> Undefined, disable |-> Undefined]
WithNoHttpTransferCache ==
  [kind |-> NoHttpTransferCache, exclude |-> Undefined, disable |-> Undefined]
\* {kind: HttpTransferCacheOptions, ...options}
WithHttpTransferCache(exclude, disable) ==
  [kind |-> HttpTransferCacheOptions, exclude |-> exclude, disable |-> disable]
FeatureInputs ==
  {WithNoDomReuse, WithNoHttpTransferCache}
  \cup {WithHttpTransferCache(x, d) :
          x \in {Undefined, "excludeA", "excludeB"}, d \in {Undefined, "true"}}

\* features.find(f => f.kind === HttpTransferCacheOptions)?.exclude
HydrationCacheExclude(fs) ==
  LET found == SelectSeq(fs, LAMBDA f : f.kind = HttpTransferCacheOptions)
  IN IF found = <<>> THEN Undefined ELSE found[1].exclude
\* The kinds the loop over the features collects.
FeaturesKind(fs) == {fs[i].kind : i \in 1..Len(fs)}
\* No providers in a slot of the list handed to makeEnvironmentProviders.
NoProviders == [provided |-> FALSE]
\* What provideClientHydration(...fs) returns: the three slots of the list.
ClientHydrationProviders(mode, fs) ==
  [called |-> TRUE,
   zoneJsDetector |-> mode = "true",
   domHydration |-> NoDomReuseFeature \notin FeaturesKind(fs),
   transferCache |->
     IF NoHttpTransferCache \in FeaturesKind(fs) THEN NoProviders
     ELSE [provided |-> TRUE, exclude |-> HydrationCacheExclude(fs)]]

ProvideClientHydration ==
  /\ providers = NotCalled
  /\ providers' = ClientHydrationProviders(ngDevMode, features)
  /\ UNCHANGED <<httpVars, warningVars, features, dayPeriodArgs, translation,
                 digitsInfo, digits>>

HydrationInit ==
  /\ HttpIdle
  /\ ngDevMode \in NgDevModes
  /\ fetchBackendWarningDisplayed = FALSE
  /\ constructions = <<>>
  /\ features \in SeqsUpTo(FeatureInputs, MaxFeatures)
  /\ providers = NotCalled
  /\ dayPeriodArgs = NotCalled
  /\ translation = NotCalled
  /\ digitsInfo = NotCalled
  /\ digits = NotCalled

HydrationNext == ProvideClientHydration

HydrationSpec == HydrationInit /\ [][HydrationNext]_vars

(* -------------------- getDateTranslation: day periods ----------------- *)
\* A time of day: date.getHours() and date.getMinutes(), or a rule's bound.
Time(h, m) == [hours |-> h, minutes |-> m]
TimeInputs == {Time(h, m) : h \in {0, 5, 6, 7, 12, 22, 23}, m \in {0, 15, 30, 45}}
\* getLocaleExtraDayPeriodRules(locale): a rule is a range [from, to]
\* (morning, afternoon, evening, night) or a single time (noon, midnight).
RangeRule(from, to) == [range |-> TRUE, from |-> from, to |-> to]
PointRule(at) == [range |-> FALSE, from |-> at, to |-> at]
RuleInputs ==
  {RangeRule(Time(6, 0), Time(12, 0)), RangeRule(Time(6, 30), Time(12, 0)),
   RangeRule(Time(22, 0), Time(5, 0)), RangeRule(Time(22, 30), Time(6, 0)),
   RangeRule(Time(6, 15), Time(6, 45)),
   PointRule(Time(12, 0)), PointRule(Time(0, 0))}

\* currentHours >= from.hours && currentMinutes >= from.minutes
AfterFrom(t, from) == t.hours >= from.hours /\ t.minutes >= from.minutes
\* currentHours < to.hours || (currentHours === to.hours && currentMinutes < to.minutes)
BeforeTo(t, to) == t.hours < to.hours \/ (t.hours = to.hours /\ t.minutes < to.minutes)
\* The callback of rules.findIndex.
RuleMatches(rule, t) ==
  IF rule.range
  THEN IF rule.from.hours < rule.to.hours
       THEN AfterFrom(t, rule.from) /\ BeforeTo(t, rule.to)
       ELSE AfterFrom(t, rule.from) \/ BeforeTo(t, rule.to)
  ELSE rule.from.hours = t.hours /\ rule.from.minutes = t.minutes
\* rules.findIndex(..): the index, from 0, of the first rule that matches, or -1.
FindIndex(rules, t) ==
  LET hits == {i \in 1..Len(rules) : RuleMatches(rules[i], t)}
  IN IF hits = {} THEN -1 ELSE (CHOOSE i \in hits : \A j \in hits : i <= j) - 1
\* getDateTranslation(date, locale, TranslationType.DayPeriods, width, form,
\* extended): the table the name is taken from and the index into it.
GetDateTranslation(t, rules, extended) ==
  IF extended /\ FindIndex(rules, t) # -1
  THEN [called |-> TRUE, table |-> "extraDayPeriods", index |-> FindIndex(rules, t)]
  ELSE [called |-> TRUE, table |-> "dayPeriods", index |-> IF t.hours < 12 THEN 0 ELSE 1]

TranslateDayPeriod ==
  /\ translation = NotCalled
  /\ translation' =
       GetDateTranslation(dayPeriodArgs.time, dayPeriodArgs.rules, dayPeriodArgs.extended)
  /\ UNCHANGED <<httpVars, warningVars, features, providers, dayPeriodArgs,
                 digitsInfo, digits>>

DayPeriodInit ==
  /\ HttpIdle
  /\ WarningIdle
  /\ features = <<>>
  /\ providers = NotCalled
  /\ dayPeriodArgs \in [called : {TRUE}, time : TimeInputs,
                        rules : SeqsUpTo(RuleInputs, MaxRules), extended : BOOLEAN]
  /\ translation = NotCalled
  /\ digitsInfo = NotCalled
  /\ digits = NotCalled

DayPeriodNext == TranslateDayPeriod

DayPeriodSpec == DayPeriodInit /\ [][DayPeriodNext]_vars

(* -------------------- parseDigitInfo ---------------------------------- *)
\* A string is the sequence of its characters.
Digits == {"0", "1", "2"}
DigitsInfoChars == Digits \cup {".", "-"}
DigitValue(ch) == IF ch = "0" THEN 0 ELSE IF ch = "1" THEN 1 ELSE 2
IsDigits(w) == w # <<>> /\ \A i \in 1..Len(w) : w[i] \in Digits
\* An optional value: a capture group that took no part in the match, a
\* variable left undefined.
None == [defined |-> FALSE]
Some(v) == [defined |-> TRUE, value |-> v]

\* parseInt(text) of a string of decimal digits.
RECURSIVE ParseInt(_)
ParseInt(w) ==
  IF w = <<>> THEN 0
  ELSE 10 * ParseInt(SubSeq(w, 1, Len(w) - 1)) + DigitValue(w[Len(w)])
\* parseIntAutoRadix(text): parseInt yields NaN when the text starts with no digit.
ParseIntAutoRadix(w) ==
  IF w = <<>> \/ w[1] \notin Digits THEN [threw |-> TRUE, value |-> 0]
  ELSE [threw |-> FALSE, value |-> ParseInt(w)]

\* The index of the first ch in w, or 0.
IndexOf(w, ch) ==
  LET hits == {i \in 1..Len(w) : w[i] = ch}
  IN IF hits = {} THEN 0 ELSE CHOOSE i \in hits : \A j \in hits : i <= j
\* digitsInfo.match(NUMBER_FORMAT_REGEXP) for /^(\d+)?\.((\d+)(-(\d+))?)?$/:
\* null, or the capture groups 1, 3 and 5.
NoMatch == [matched |-> FALSE]
NumberFormatMatch(w) ==
  LET dot == IndexOf(w, ".")
      pre == SubSeq(w, 1, dot - 1)
      rest == SubSeq(w, dot + 1, Len(w))
      dash == IndexOf(rest, "-")
      minFrac == IF dash = 0 THEN rest ELSE SubSeq(rest, 1, dash - 1)
      maxFrac == SubSeq(rest, dash + 1, Len(rest))
  IN IF dot = 0 \/ ~(pre = <<>> \/ IsDigits(pre)) THEN NoMatch
     ELSE IF rest = <<>>
          THEN [matched |-> TRUE, minIntPart |-> IF pre = <<>> THEN None ELSE Some(pre),
                minFractionPart |-> None, maxFractionPart |-> None]
     ELSE IF dash = 0
          THEN IF IsDigits(rest)
               THEN [matched |-> TRUE,
                     minIntPart |-> IF pre = <<>> THEN None ELSE Some(pre),
                     minFractionPart |-> Some(rest), maxFractionPart |-> None]
               ELSE NoMatch
     ELSE IF IsDigits(minFrac) /\ IsDigits(maxFrac)
          THEN [matched |-> TRUE,
                minIntPart |-> IF pre = <<>> THEN None ELSE Some(pre),
                minFractionPart |-> Some(minFrac), maxFractionPart |-> Some(maxFrac)]
     ELSE NoMatch

\* if (part != null) variable = parseIntAutoRadix(part)
ParsePart(part) == IF part.defined THEN Some(ParseIntAutoRadix(part.value).value) ELSE None
PartThrows(part) == part.defined /\ ParseIntAutoRadix(part.value).threw

\* maximumFractionDigits after the if / else-if on maxFractionPart: the
\* else-if branch is taken only when maxFractionPart is null, and assigns
\* only when maximumFractionDigits is not null.
MaximumFraction(parts, minFraction, maxFraction) ==
  IF parts.maxFractionPart.defined THEN maxFraction
  ELSE IF parts.minFractionPart.defined /\ minFraction.defined /\ maxFraction.defined
          /\ minFraction.value > maxFraction.value
       THEN minFraction
       ELSE maxFraction

IntegerDigitsUnchanged(minInt) == minInt
\* minimumIntegerDigits === 0 ? 1 : minimumIntegerDigits
IntegerDigits(minInt) == IF minInt.defined /\ minInt.value = 0 THEN Some(1) ELSE minInt

DigitInfoError == [called |-> TRUE, threw |-> TRUE]
\* parseDigitInfo(digitsInfo): the object it returns, or that it threw.
ParseDigitInfo(arg) ==
  IF ~arg.given \/ arg.text = <<>>
  THEN [called |-> TRUE, threw |-> FALSE, minimumIntegerDigits |-> IntegerDigits(None),
        minimumFractionDigits |-> None, maximumFractionDigits |-> None]
  ELSE LET parts == NumberFormatMatch(arg.text)
       IN IF ~parts.matched THEN DigitInfoError
          ELSE IF PartThrows(parts.minIntPart) \/ PartThrows(parts.minFractionPart)
                  \/ PartThrows(parts.maxFractionPart)
               THEN DigitInfoError
          ELSE LET minInt == ParsePart(parts.minIntPart)
                   minFraction == ParsePart(parts.minFractionPart)
                   maxFraction == ParsePart(parts.maxFractionPart)
               IN [called |-> TRUE, threw |-> FALSE,
                   minimumIntegerDigits |-> IntegerDigits(minInt),
                   minimumFractionDigits |-> minFraction,
                   maximumFractionDigits |->
                     MaximumFraction(parts, minFraction, maxFraction)]

ParseDigits ==
  /\ digits = NotCalled
  /\ digits' = ParseDigitInfo(digitsInfo)
  /\ UNCHANGED <<httpVars, warningVars, features, providers, dayPeriodArgs,
                 translation, digitsInfo>>

DigitsInit ==
  /\ HttpIdle
  /\ WarningIdle
  /\ features = <<>>
  /\ providers = NotCalled
  /\ dayPeriodArgs = NotCalled
  /\ translation = NotCalled
  /\ digitsInfo \in
       {[called |-> TRUE, given |-> FALSE, text |-> <<>>]}
       \cup [called : {TRUE}, given : {TRUE}, text : SeqsUpTo(DigitsInfoChars, MaxDigitsLen)]
  /\ digits = NotCalled

DigitsNext == ParseDigits

DigitsSpec == DigitsInit /\ [][DigitsNext]_vars

\* Callers that use Http.request, or the promise-variant handler, over the
\* fetch backend.
HttpInputs == {"addA", "evFwd"}

HttpInit ==
  /\ variant = "single"
  /\ fns \in SeqsUpTo(HttpInputs, MaxFns)
  /\ rootFns = <<>>
  /\ legacyFns = <<>>
  /\ contributeToStability = TRUE
  /\ chain = NullChain
  /\ buildCount = 0
  /\ legacyChain = NullLegacyChain
  /\ pendingTasks = {}
  /\ addCalls = 0
  /\ removeCalls = <<>>
  /\ calls = <<>>
  /\ subs = <<>>
  /\ promises = <<>>
  /\ registered = 0
  /\ requests = <<>>
  /\ backendCalls = <<>>
  /\ WarningIdle
  /\ HelpersIdle

HttpNext ==
  \/ \E req \in ReqInputs, rt \in ResponseTypes, signal \in SignalInputs :
       HttpRequest(req, rt, signal)
  \/ \E req \in ReqInputs, rt \in ResponseTypes, signal \in SignalInputs :
       HttpHandle(req, rt, signal)
  \/ \E b \in 1..MaxRequests, out \in FetchResponses : FetchRespond(b, out)
  \/ \E b \in 1..MaxRequests, s \in FetchErrors : FetchReject(b, s)

HttpSpec == HttpInit /\ [][HttpNext]_vars

(* ------------------------------ properties ----------------------------- *)
SelectK(log, K) == SelectSeq(log, LAMBDA it : it.k \in K)
NamesOf(log) == [i \in 1..Len(log) |-> log[i].e]
Reverse(q) == [i \in 1..Len(q) |-> q[Len(q) + 1 - i]]
\* Everything one subscription's run of the chain did: the part done inside
\* handle, then the part done from subscribe on.
FullLog(s) == calls[subs[s].call].log \o subs[s].log
\* The way in (entries entered, backend invoked) and the way out (response
\* observed by an entry, response handed to the caller).
Inward(log) == SelectK(log, {"enter", "backend"})
Outward(log) ==
  SelectSeq(log, LAMBDA it : it.k = "seen" \/ (it.k = "caller" /\ it.e = "Response"))
Positions(log, K) == {i \in 1..Len(log) : log[i].k \in K}
\* Position of the first occurrence of x in list q.
FirstIndex(q, x) == CHOOSE i \in 1..Len(q) : q[i] = x /\ \A j \in 1..(i - 1) : q[j] # x
AllCallsNextOnce(es) == \A i \in 1..Len(es) : es[i] \in CallsNextOnce

\* C1: stream variant, entries that each call next exactly once: the entries
\* are entered in list order, the backend is invoked after the last of them,
\* and the backend's response is observed by the entries in reverse order
\* before the caller receives it.
C1_Order ==
  \A s \in 1..Len(subs) :
    LET es == calls[subs[s].call].entries
        full == FullLog(s)
    IN (subs[s].status = "complete" /\ AllCallsNextOnce(es)) =>
         /\ NamesOf(Inward(full)) = es \o <<"">>
         /\ NamesOf(Outward(full)) = Reverse(es) \o <<"Response">>
         /\ \A i \in Positions(full, {"enter", "backend"}) :
              \A j \in Positions(full, {"seen"}) : i < j
C1_Witness ==
  \E s \in 1..Len(subs) :
    /\ subs[s].status = "complete"
    /\ calls[subs[s].call].entries = <<"addA", "addB", "evFwd">>
    /\ Len(SelectK(FullLog(s), {"seen"})) = 3

\* C2: stream variant: the first entry receives the request given to handle,
\* each later stage (entry or backend) receives the request its predecessor
\* passed to next; with entries [addA, addB] and an echoing backend, a request
\* without headers yields the body {X-A: 1, X-B: 2}.
C2_RequestPassing ==
  \A s \in 1..Len(subs) :
    LET c == calls[subs[s].call]
        inw == Inward(FullLog(s))
    IN /\ Len(inw) >= 1 => inw[1].r = c.req
       /\ \A i \in 1..(Len(inw) - 1) : inw[i + 1].r = AddHeader(inw[i].e, inw[i].r)
       /\ (c.entries = <<"addA", "addB">> /\ c.req = NoHeaders
             /\ subs[s].status = "complete")
            => subs[s].delivered =
                 <<Ev("Response", {<<"X-A", "1">>, <<"X-B", "2">>})>>
C2_Witness ==
  \E s \in 1..Len(subs) :
    /\ calls[subs[s].call].entries = <<"addA", "addB">>
    /\ calls[subs[s].call].req = NoHeaders
    /\ subs[s].status = "complete"
    /\ Len(subs[s].delivered) = 1

\* C3: both variants: an entry that never calls its continuation keeps every
\* later entry and the transport backend from being invoked for the request.
Silenced(es, log) ==
  \A i \in 1..Len(es) :
    (es[i] \in NeverCallsNext /\ \E p \in 1..Len(log) : log[p].k = "enter" /\ log[p].e = es[i])
      => /\ \A p \in 1..Len(log) : log[p].k # "backend"
         /\ \A j \in (i + 1)..Len(es) :
              \A p \in 1..Len(log) : ~(log[p].k = "enter" /\ log[p].e = es[j])
C3_ShortCircuit ==
  /\ \A s \in 1..Len(subs) : Silenced(calls[subs[s].call].entries, FullLog(s))
  /\ \A c \in 1..Len(calls) : Silenced(calls[c].entries, calls[c].log)
  /\ \A k \in 1..Len(promises) : Silenced(promises[k].entries, promises[k].log)
C3_Witness ==
  \E s \in 1..Len(subs) :
    /\ calls[subs[s].call].entries = <<"addA", "evShort", "addB">>
    /\ NamesOf(SelectK(FullLog(s), {"enter"})) = <<"addA", "evShort">>
    /\ subs[s].status = "complete"

\* C4: both variants: the list dispatched over is HTTP_INTERCEPTOR_FNS followed
\* by HTTP_ROOT_INTERCEPTOR_FNS with duplicates removed: each distinct entry
\* once, in the order of first occurrence.
IsFirstOccurrenceList(d, src) ==
  /\ Range(d) = Range(src)
  /\ \A i, j \in 1..Len(d) : d[i] = d[j] => i = j
  /\ \A i, j \in 1..Len(d) : i < j => FirstIndex(src, d[i]) < FirstIndex(src, d[j])
C4_Dedup ==
  /\ Len(calls) >= 1 => IsFirstOccurrenceList(calls[1].entries, calls[1].read)
  /\ \A k \in 1..Len(promises) :
       IsFirstOccurrenceList(promises[k].entries, promises[k].read)
C4_Witness ==
  /\ Len(calls) >= 1
  /\ calls[1].read = <<"addA", "addB", "addA">>
  /\ calls[1].entries = <<"addA", "addB">>

\* C5: stream variant: the chain field is assigned once, by the first handle
\* call, and every later handle call runs the entries of the first call in the
\* same order, whatever was registered in between.
C5_ChainCached ==
  variant = "stream" =>
    /\ chain.built <=> Len(calls) >= 1
    /\ buildCount = IF chain.built THEN 1 ELSE 0
    /\ \A c \in 1..Len(calls) :
         /\ calls[c].entries = calls[1].entries
         /\ chain.entries = calls[c].entries
         /\ NamesOf(Inward(calls[c].log)) = NamesOf(Inward(calls[1].log))
C5_Witness ==
  /\ Len(calls) = 2
  /\ calls[2].read # calls[1].read
  /\ DedupedInterceptorFns(fns, rootFns) # chain.entries
  /\ Len(calls[2].log) >= 2

\* C6: single-shot variant: the entry list is fixed by the first handle call;
\* an entry registered later is not invoked by a later handle call.
C6_FixedAtFirstCall ==
  \A k \in 1..Len(promises) :
    /\ promises[k].entries = promises[1].entries
    /\ \A p \in 1..Len(promises[k].log) :
         promises[k].log[p].k = "enter"
           => promises[k].log[p].e \in Range(promises[1].entries)

\* The subscriptions of handle call c, and whether one of them is over.
SubsOf(c) == {s \in 1..Len(subs) : subs[s].call = c}
Over(c) == \E s \in SubsOf(c) : subs[s].status # "active"

\* C7: stream variant, stability flag on: the token of a handle call is
\* removed at most once at any time and exactly once when the request is over,
\* however many subscriptions the returned stream gets.
C7_RemovedExactlyOnce ==
  \A c \in 1..Len(calls) :
    calls[c].token # 0 =>
      /\ removeCalls[calls[c].token] <= 1
      /\ Over(c) => removeCalls[calls[c].token] = 1

\* C8: stream variant, stability flag on: when a subscription to the returned
\* stream has terminated (completion, error or unsubscribe), the token of its
\* handle call is no longer in the registry.
C8_ReleasedOnTermination ==
  \A s \in 1..Len(subs) :
    (subs[s].status # "active" /\ calls[subs[s].call].token # 0) =>
      /\ calls[subs[s].call].token \notin pendingTasks
      /\ removeCalls[calls[subs[s].call].token] >= 1
C8_Witness ==
  \E s, t \in 1..Len(subs) :
    /\ calls[subs[s].call].token # 0
    /\ subs[s].status = "unsubscribed"
    /\ subs[s].src = "cancelled"
    /\ subs[t].status = "error"

\* Whether an entry threw while handle call c invoked the chain.
EnteredThrow(log) == \E p \in 1..Len(log) : log[p].k = "enter" /\ log[p].e = "throw"

\* C9: stream variant, stability flag on: when an entry throws synchronously
\* during the chain invocation, the caller gets an erroring stream, no entry
\* after the throwing one is invoked, and the token of the call is removed.
C9_ThrowCleanup ==
  \A c \in 1..Len(calls) :
    (EnteredThrow(calls[c].log) /\ calls[c].token # 0) =>
      /\ ~calls[c].threw
      /\ Silenced(calls[c].entries, calls[c].log)
      /\ calls[c].token \notin pendingTasks

\* C10: stream variant, stability flag off: neither handle nor the legacy
\* chain ever calls add or remove; the registry stays as it was.
C10_Untracked ==
  ~contributeToStability =>
    /\ pendingTasks = {}
    /\ addCalls = 0
    /\ removeCalls = <<>>
C10_Witness ==
  /\ ~contributeToStability
  /\ \E s \in 1..Len(subs) :
       /\ subs[s].status = "complete"
       /\ NamesOf(SelectK(FullLog(s), {"enter"})) = <<"evFwd", "legacy", "la", "lb">>
  /\ \E s \in 1..Len(subs) : subs[s].status = "unsubscribed"

\* C11: single-shot variant, stability flag on: every handle call has called
\* add() once before dispatching, and once the call has settled (resolved or
\* rejected) its token was removed once and is out of the registry.
C11_SingleTracked ==
  (variant = "single" /\ contributeToStability) =>
    /\ addCalls = Len(promises)
    /\ Len(removeCalls) = Len(promises)
    /\ \A k \in 1..Len(promises) :
         promises[k].state # "pending" => (k \notin pendingTasks /\ removeCalls[k] = 1)

\* The Response events among the events a caller received.
Responses(q) == SelectSeq(q, LAMBDA ev : ev.type = "Response")
TypesOf(q) == [i \in 1..Len(q) |-> q[i].type]
\* The backend of subscription s has produced its one terminal outcome while
\* the caller was subscribed.
BackendOver(s) == subs[s].src \in {"done", "failed"} /\ subs[s].status # "unsubscribed"

\* C12: stream variant, entries that each call next once: when the backend has
\* produced its terminal outcome, the caller's stream has ended with exactly
\* one Response and completion, or with an error and no Response.
C12_OneTerminalOutcome ==
  \A s \in 1..Len(subs) :
    (BackendOver(s) /\ AllCallsNextOnce(calls[subs[s].call].entries)) =>
      \/ subs[s].status = "complete" /\ Len(Responses(subs[s].delivered)) = 1
      \/ subs[s].status = "error" /\ Len(Responses(subs[s].delivered)) = 0

\* C13: stream variant: when the backend's stream errors while the caller is
\* subscribed and no entry catches the error, the caller's stream errors.
C13_ErrorReachesCaller ==
  \A s \in 1..Len(subs) :
    (subs[s].src = "failed" /\ subs[s].status # "unsubscribed") =>
      /\ subs[s].status = "error"
      /\ \A p \in 1..Len(subs[s].log) : subs[s].log[p].k # "unhandled"

\* C15: stream variant, entries [evFwd] (emit Sent, forward to next, re-emit
\* what next produces): while the backend is pending the caller has received
\* [Sent]; after a successful backend response the caller has received exactly
\* [Sent, Response], the response being the backend's, and then completion.
C15_SentThenResponse ==
  \A s \in 1..Len(subs) :
    (calls[subs[s].call].entries = <<"evFwd">> /\ subs[s].status # "unsubscribed") =>
      /\ subs[s].src = "pending" =>
           (subs[s].delivered = <<SentEv>> /\ subs[s].status = "active")
      /\ subs[s].src = "done" =>
           /\ subs[s].delivered = <<SentEv, EchoResponse(calls[subs[s].call].req)>>
           /\ subs[s].status = "complete"
           /\ NamesOf(SelectK(subs[s].log, {"caller"})) = <<"Sent", "Response", "complete">>
C15_Witness ==
  \E s \in 1..Len(subs) :
    /\ calls[subs[s].call].entries = <<"evFwd">>
    /\ subs[s].src = "done"
    /\ subs[s].status = "complete"
    /\ TypesOf(subs[s].delivered) = <<"Sent", "Response">>

\* The events entry e passed to emit (k = "emit") or its stage passed on to
\* its subscriber (k = "fwd"), in order.
EventsOf(log, k, e) ==
  LET items == SelectSeq(log, LAMBDA it : it.k = k /\ it.e = e)
  IN [i \in 1..Len(items) |-> Ev(items[i].t, items[i].r)]
HasResponse(q) == \E i \in 1..Len(q) : q[i].type = "Response"
UpToFirstResponse(q) ==
  IF HasResponse(q)
  THEN SubSeq(q, 1, CHOOSE i \in 1..Len(q) :
                      q[i].type = "Response" /\ \A j \in 1..(i - 1) : q[j].type # "Response")
  ELSE q

\* C16: stream variant, callback-based stage, subscriber still subscribed:
\* what the stage passed on is what its entry passed to emit up to and
\* including the first Response, in the same order; the stage's stream is
\* closed once a Response was emitted, and by nothing else unless an entry
\* throws; nothing emitted after that Response is delivered.  Where the stage is outermost and no finalize wraps
\* it, this is what the caller of handle received, followed by completion.
C16_EmitForwarding ==
  \A s \in 1..Len(subs) :
    subs[s].status # "unsubscribed" =>
      LET es == calls[subs[s].call].entries
          emitted(e) == EventsOf(subs[s].log, "emit", e)
          forwarded(e) == EventsOf(subs[s].log, "fwd", e)
      IN /\ \A i \in 1..Len(es) :
              Kind(es[i]) = "ev" =>
                /\ forwarded(es[i]) = UpToFirstResponse(emitted(es[i]))
                /\ \A d \in 1..Len(subs[s].layers) :
                     (subs[s].layers[d].op = "evf" /\ subs[s].layers[d].e = es[i]) =>
                       /\ HasResponse(emitted(es[i])) => subs[s].layers[d].closed
                       /\ (subs[s].layers[d].closed /\ "throw" \notin Range(es))
                            => HasResponse(emitted(es[i]))
         /\ (es # <<>> /\ Kind(es[1]) = "ev" /\ calls[subs[s].call].token = 0) =>
              /\ subs[s].delivered = UpToFirstResponse(emitted(es[1]))
              /\ subs[s].status = "complete" <=> HasResponse(emitted(es[1]))
C16_Witness ==
  \E s \in 1..Len(subs) :
    /\ calls[subs[s].call].entries = <<"evFwd", "evBurst">>
    /\ calls[subs[s].call].token = 0
    /\ subs[s].status = "complete"
    /\ Len(EventsOf(subs[s].log, "emit", "evBurst")) = 5
    /\ TypesOf(EventsOf(subs[s].log, "fwd", "evBurst")) = <<"Sent", "DownloadProgress", "Response">>
    /\ TypesOf(subs[s].delivered) = <<"Sent", "Sent", "DownloadProgress", "Response">>

\* The positions in log where entry e called its continuation.
NextCalls(log, e) == {p \in 1..Len(log) : log[p].k = "next" /\ log[p].e = e}
\* What a call of next at position p set going: the entries entered and the
\* backend invocation logged after p and before the same entry's next call.
Downstream(log, e, p) ==
  LET later == {q \in NextCalls(log, e) : q > p}
      end == IF later = {} THEN Len(log)
             ELSE (CHOOSE q \in later : \A r \in later : q <= r) - 1
  IN NamesOf(Inward(SubSeq(log, p + 1, end)))

\* C17: stream variant: every call of next by the entry at index i, the
\* second one of a retrying entry included, enters the entries i+1 .. n-1 in
\* list order and then invokes the backend, when those entries each call next
\* once and the stream was subscribed to.
C17_NextReinvocable ==
  \A s \in 1..Len(subs) :
    LET es == calls[subs[s].call].entries
        full == FullLog(s)
    IN \A i \in 1..Len(es) :
         (es[i] \in RetryEntries
            /\ \A j \in (i + 1)..Len(es) : es[j] \in CallsNextOnce) =>
           \A p \in NextCalls(full, es[i]) :
             Downstream(full, es[i], p) = SubSeq(es, i + 1, Len(es)) \o <<"">>
C17_Witness ==
  \E s \in 1..Len(subs) :
    /\ calls[subs[s].call].entries = <<"evFwd", "retry", "addA">>
    /\ Cardinality(NextCalls(FullLog(s), "retry")) = 2
    /\ subs[s].status = "complete"

\* Every entry of the list forwards to next once and catches nothing.
AllForward(es) == \A i \in 1..Len(es) : es[i] \in SingleForwarders

\* C14: single-shot variant, entries that forward to next without catching:
\* when the backend's handle has rejected, the promise handle returned is
\* rejected.
C14_RejectionReachesCaller ==
  \A k \in 1..Len(promises) :
    (promises[k].bstate = "failed" /\ AllForward(promises[k].entries)) =>
      promises[k].state = "rejected"

\* The place of entry e in the de-duplicated list es.
EntryIndex(es, e) == CHOOSE i \in 1..Len(es) : es[i] = e

\* C18: single-shot variant: every call of next by the entry at place i, a
\* second call by a retrying entry included, dispatches to the entry at place
\* i+1, or to the backend when i is the last place; the backend is invoked
\* only after every entry was dispatched.
C18_NextDispatchesToSuccessor ==
  \A k \in 1..Len(promises) :
    LET es == promises[k].entries
        log == promises[k].log
    IN /\ \A p \in 1..Len(log) :
            log[p].k = "next" =>
              LET i == EntryIndex(es, log[p].e)
              IN /\ p < Len(log)
                 /\ IF i < Len(es)
                    THEN log[p + 1].k = "enter" /\ log[p + 1].e = es[i + 1]
                    ELSE log[p + 1].k = "backend"
       /\ \A p \in 1..Len(log) :
            log[p].k = "backend" =>
              \A i \in 1..Len(es) :
                \E q \in 1..(p - 1) : log[q].k = "enter" /\ log[q].e = es[i]

IsPrefix(a, b) == Len(a) <= Len(b) /\ SubSeq(b, 1, Len(a)) = a

\* C19: single-shot variant, entries that each call next once: at every
\* moment the entries dispatched so far are the first entries of the list, in
\* list order, each once, and the backend is invoked after the last of them,
\* also when entries suspend before they call next.
C19_OrderUnderSuspension ==
  \A k \in 1..Len(promises) :
    AllForward(promises[k].entries) =>
      LET inw == NamesOf(Inward(promises[k].log))
      IN /\ IsPrefix(inw, promises[k].entries \o <<"">>)
         /\ promises[k].bstate # "none" => inw = promises[k].entries \o <<"">>
C19_Witness ==
  \E k \in 1..Len(promises) :
    /\ promises[k].entries = <<"evSlow", "slow", "addA">>
    /\ promises[k].bstate = "pending"
    /\ NamesOf(SelectK(promises[k].log, {"next"})) = <<"evSlow", "slow", "addA">>

\* C20: single-shot variant: once the promise of handle has settled, no part
\* of the chain is still running and no event is given to onEvent any more;
\* the backend's response was given to onEvent.
C20_SettlesAfterEvents ==
  \A k \in 1..Len(promises) :
    /\ promises[k].state # "pending" =>
         (promises[k].bstate # "pending" /\ ~promises[k].susp.on)
    /\ promises[k].late = <<>>
    /\ promises[k].bstate = "done" =>
         \E i \in 1..Len(promises[k].delivered) :
           promises[k].delivered[i] = EchoResponse(promises[k].breq)

\* The layers of a stream with the registry tokens left out.
EraseTokens(layers) == [d \in 1..Len(layers) |-> [layers[d] EXCEPT !.token = 0]]
\* What can be observed of a subscription, the registry aside.
Observed(layers, src, breq, status, delivered, log) ==
  [layers |-> EraseTokens(layers), src |-> src, breq |-> breq, status |-> status,
   delivered |-> delivered, log |-> log]
\* What one step of its own makes of a live subscription.
SubSteps(S) ==
  {Responded(st) : st \in {x \in S : x.src = "pending"}}
    \cup {Failed(st) : st \in {x \in S : x.src = "pending"}}
    \cup {Teardown(st) : st \in {x \in S : x.status = "active"}}
RECURSIVE SubClosure(_)
SubClosure(S) == LET T == S \cup SubSteps(S) IN IF T = S THEN S ELSE SubClosure(T)
\* Handle call c run by itself: what handle does, and every state a
\* subscription to its stream can get into by steps of its own.
AloneCall(c) ==
  Dispatch(calls[c].req, calls[c].entries, contributeToStability, MachineOf(c))
AloneSubs(c) == SubClosure({Resolve(NewSub(c, MachineOf(c)), calls[c].pipe, chain.entries)})
\* The same for a call of the single-shot variant.
PromiseSteps(S) ==
  {Resumed(c) : c \in {x \in S : x.susp.on}}
    \cup {BackendResolved(c) : c \in {x \in S : x.bstate = "pending"}}
    \cup {BackendRejected(c) : c \in {x \in S : x.bstate = "pending"}}
RECURSIVE PromiseClosure(_)
PromiseClosure(S) ==
  LET T == S \cup PromiseSteps(S) IN IF T = S THEN S ELSE PromiseClosure(T)
AlonePromises(req, es) == PromiseClosure({SingleNext(NewPromise(req, es), req, TRUE)})

\* C21: both variants, two handle calls in flight through one Dispatcher:
\* whatever the interleaving, what each call did and got (entries entered,
\* requests passed on, backend invoked, events delivered, in order) is what
\* the same call does and gets when it runs by itself; only the tokens of the
\* pending-task registry depend on the other call.
C21_Independent ==
  /\ \A c \in 1..Len(calls) :
       LET r == AloneCall(c)
       IN /\ calls[c].threw = r.threw
          /\ calls[c].log = r.m.log
          /\ EraseTokens(calls[c].pipe) = EraseTokens(r.pipe)
  /\ \A s \in 1..Len(subs) :
       Observed(subs[s].layers, subs[s].src, subs[s].breq, subs[s].status,
                subs[s].delivered, subs[s].log)
         \in {Observed(st.layers, st.src, st.breq, st.status, st.delivered, st.m.log) :
                st \in AloneSubs(subs[s].call)}
  /\ \A k \in 1..Len(promises) :
       [promises[k] EXCEPT !.read = <<>>]
         \in {[c EXCEPT !.read = <<>>] :
                c \in AlonePromises(promises[k].req, promises[k].entries)}
C21_Witness ==
  /\ Len(promises) = 2
  /\ promises[1].entries = <<"evSlow", "evFwd">>
  /\ promises[1].susp.on
  /\ promises[2].state = "resolved"
  /\ TypesOf(promises[2].delivered) = <<"Sent", "Response">>

\* C22: stream variant: as long as the stream a handle call returned has not
\* been subscribed to, the call has entered no entry and invoked no backend,
\* and holds no token in the pending-task registry.
C22_ColdAndLazy ==
  \A c \in 1..Len(calls) :
    SubsOf(c) = {} =>
      /\ Inward(calls[c].log) = <<>>
      /\ calls[c].token \notin pendingTasks

\* C23: single-shot variant: the abort signal the caller has for a request
\* is the signal with which the backend's handle was called for it, and so
\* the one given to fetch, by way of Http.request and by way of
\* HttpInterceptorHandler.handle.
C23_SignalReachesBackend ==
  \A b \in 1..Len(backendCalls) :
    /\ backendCalls[b].signal = requests[backendCalls[b].owner].signal
    /\ backendCalls[b].fetchSignal = requests[backendCalls[b].owner].signal

\* C24: every request a caller made through Http.request went through the
\* Dispatcher's handle, and every registered entry was entered for it before
\* the backend was called.
C24_ThroughDispatcher ==
  \A b \in 1..Len(backendCalls) :
    LET r == requests[backendCalls[b].owner]
        es == DedupedInterceptorFns(fns, rootFns)
    IN r.via = "request" =>
         /\ r.promise \in 1..Len(promises)
         /\ \A i \in 1..Len(es) :
              \E p \in 1..Len(promises[r.promise].log) :
                promises[r.promise].log[p].k = "enter" /\ promises[r.promise].log[p].e = es[i]

\* C25: the promise of Http.request is settled once the backend call is over:
\* resolved with the event when the backend gave one, rejected when the
\* backend's handle rejected.
C25_RequestSettles ==
  \A b \in 1..Len(backendCalls) :
    LET r == requests[backendCalls[b].owner]
    IN r.via = "request" =>
         /\ backendCalls[b].state = "resolved" =>
              (r.state = "resolved" /\ <<r.value>> = backendCalls[b].events)
         /\ backendCalls[b].state = "rejected" => r.state = "rejected"

\* The outcome of a PromiseFetchBackend.handle call that is over: onEvent
\* was called once, with a Response, and the promise resolved; or the promise
\* rejected with an HttpErrorResponse and onEvent was not called.
OneOutcome(bc) ==
  \/ /\ bc.state = "resolved"
     /\ Len(bc.events) = 1
     /\ bc.events[1].type = "Response"
  \/ /\ bc.state = "rejected"
     /\ bc.error.type = "HttpErrorResponse"
     /\ bc.events = <<>>

\* C26: every PromiseFetchBackend.handle call fetches exactly once, and when
\* it is over it has exactly one outcome: onEvent called once with a Response
\* and the promise resolved, or the promise rejected with an HttpErrorResponse
\* and onEvent never called; before that onEvent was not called.
C26_OneFetchOneOutcome ==
  \A b \in 1..Len(backendCalls) :
    /\ backendCalls[b].fetches = 1
    /\ IF backendCalls[b].state = "pending" THEN backendCalls[b].events = <<>>
       ELSE OneOutcome(backendCalls[b])

\* The backend calls whose fetch resolved to a response.
Fetched(b) == backendCalls[b].fetched[1]
GotResponse(b) ==
  backendCalls[b].fetched # <<>> /\ "status" \in DOMAIN backendCalls[b].fetched[1]
\* The body of the response could not be loaded, or not be decoded for the
\* requested response type.
BodyUnreadable(rt, bytes) == bytes = "loadfail" \/ (rt = "json" /\ bytes = "malformed")
\* A non-empty body was parsed: there was a body and parsing it gave a value
\* other than null and the empty string.
NonEmptyBodyParsed(rt, bytes) ==
  /\ bytes \notin {"none", "loadfail"}
  /\ ~(rt = "json" /\ bytes \in {"empty", "xssi", "malformed"})
  /\ ~(rt = "text" /\ bytes = "empty")
EffectiveStatus(rt, out) ==
  IF out.status = 0 /\ NonEmptyBodyParsed(rt, out.body) THEN 200 ELSE out.status

C28_BodyFailure ==
  \A b \in 1..Len(backendCalls) :
    (GotResponse(b) /\ BodyUnreadable(backendCalls[b].responseType, Fetched(b).body)) =>
      LET result == backendCalls[b].result[1]
      IN /\ ~result.ok
         /\ result.value.type = "HttpErrorResponse"
         /\ result.value.status = Fetched(b).status
         /\ result.value.headers = ResponseHeaders(Fetched(b))
         /\ backendCalls[b].events = <<>>
         /\ backendCalls[b].state = "rejected"
C28_Witness ==
  \E b \in 1..Len(backendCalls) :
    /\ GotResponse(b)
    /\ Fetched(b).status = 200
    /\ Fetched(b).body = "malformed"
    /\ backendCalls[b].responseType = "json"
    /\ backendCalls[b].cb
    /\ backendCalls[b].state = "rejected"
    /\ backendCalls[b].error.status = 200

LegacyRun(log, p, c) ==
  LET n == Len(legacyChain.entries)
  IN /\ Len(log) >= p + n + 1
     /\ \A j \in 1..n :
          log[p + j].k = "enter" /\ log[p + j].e = legacyChain.entries[j]
     /\ log[p + n + 1] = HandlerItem(log[p].r, c)
LegacyRuns(log, c) ==
  \A p \in 1..Len(log) : (log[p].k = "enter" /\ log[p].e = "legacy") => LegacyRun(log, p, c)
\* What the handler went on to, in a subscription's whole run: the stage
\* after the legacy entry in the outer chain, or the backend.
HandlerContinues(log, es) ==
  \A p \in 1..Len(log) :
    log[p].k = "handler" =>
      LET rest == Inward(SubSeq(log, p + 1, Len(log)))
          i == EntryIndex(es, "legacy")
      IN rest # <<>> =>
           /\ rest[1].e = IF i < Len(es) THEN es[i + 1] ELSE ""
           /\ rest[1].k = IF i < Len(es) THEN "enter" ELSE "backend"
           /\ rest[1].r = log[p].r

\* C30: the legacy entry assigns its chain cell once, on its first
\* invocation, from HTTP_INTERCEPTORS as it is then; every invocation enters
\* the interceptors of the cell in their order and then delegates to the
\* handler of the handle call it runs for, which goes on with the rest of the
\* outer chain.
C30_LegacyChain ==
  /\ legacyChain.builds = IF legacyChain.built THEN 1 ELSE 0
  /\ legacyChain.built => IsPrefix(legacyChain.entries, legacyFns)
  /\ legacyChain.built <=>
       \/ \E c \in 1..Len(calls) : SelectSeq(calls[c].log, LAMBDA it : it.e = "legacy") # <<>>
       \/ \E s \in 1..Len(subs) : SelectSeq(subs[s].log, LAMBDA it : it.e = "legacy") # <<>>
  /\ \A c \in 1..Len(calls) : LegacyRuns(calls[c].log, c)
  /\ \A s \in 1..Len(subs) :
       /\ LegacyRuns(subs[s].log, subs[s].call)
       /\ HandlerContinues(FullLog(s), calls[subs[s].call].entries)
C30_Witness ==
  /\ legacyChain.entries = <<"la", "lb", "lc">>
  /\ legacyFns = <<"la", "lb", "lc", "ld">>
  /\ legacyChain.builder = 1
  /\ \E s \in 1..Len(subs) :
       /\ subs[s].call = 2
       /\ subs[s].status = "complete"
       /\ NamesOf(Inward(FullLog(s))) = <<"evFwd", "legacy", "la", "lb", "lc", "">>
       /\ \E p \in 1..Len(subs[s].log) : subs[s].log[p] = HandlerItem(calls[2].req, 2)

\* The sum of the first n numbers of f.
RECURSIVE SumOver(_, _)
SumOver(f, n) == IF n = 0 THEN 0 ELSE f[n] + SumOver(f, n - 1)
LegacyEnters(log) == Len(SelectSeq(log, LAMBDA it : it.k = "enter" /\ it.e = "legacy"))
\* How often the legacy entry was invoked so far, at handle or subscribe time.
LegacyInvocations ==
  SumOver([c \in 1..Len(calls) |-> LegacyEnters(calls[c].log)], Len(calls))
  + SumOver([s \in 1..Len(subs) |-> LegacyEnters(subs[s].log)], Len(subs))
\* The subscriptions to the stream of call c that were torn down.
TornDown(c) == {s \in 1..Len(subs) : subs[s].call = c /\ subs[s].status # "active"}
\* Handle call c acquired its own token inside handle, the stream it returned
\* removes that token under finalize, and remove ran once per subscription
\* torn down.
HandleAddsOnce(c) ==
  /\ calls[c].token \in 1..addCalls
  /\ \A d \in 1..Len(calls) : d # c => calls[d].token # calls[c].token
  /\ ~calls[c].threw =>
       /\ calls[c].pipe[1].op = "finalize"
       /\ calls[c].pipe[1].token = calls[c].token
  /\ removeCalls[calls[c].token] = Cardinality(TornDown(c))

\* C33 as stated: with the stability flag on, the stream variant has made as
\* many add calls as handle calls, however often the streams were subscribed.
C33_AddsEqualHandleCalls ==
  (variant = "stream" /\ contributeToStability) => addCalls = Len(calls)

\* C33 (amended): with the stability flag on, handle calls add exactly once
\* per handle call, inside handle and before any subscription, and remove
\* runs per subscription; the legacy entry calls add once more per
\* invocation; so the add calls number the handle calls plus the invocations
\* of the legacy entry, and the handle calls alone when the chain holds no
\* legacy entry.
C33_AddPerHandle ==
  (variant = "stream" /\ contributeToStability) =>
    /\ addCalls = Len(calls) + LegacyInvocations
    /\ \A c \in 1..Len(calls) : HandleAddsOnce(c)
    /\ (chain.built /\ "legacy" \notin Range(chain.entries)) => addCalls = Len(calls)
C33_Witness ==
  /\ variant = "stream" /\ contributeToStability
  /\ Len(calls) = 2 /\ addCalls = 2
  /\ Cardinality(TornDown(1)) = 2 /\ removeCalls[calls[1].token] = 2
  /\ TornDown(2) = {} /\ removeCalls[calls[2].token] = 0

\* The live layers of subscription s hold the subscriber of a callback-based
\* stage.
HasStage(s) == \E d \in 1..Len(subs[s].layers) : subs[s].layers[d].op = "evf"
\* The step is the caller's unsubscribe of subscription s.
Unsubscribes(s) ==
  /\ s \in 1..Len(subs)
  /\ subs[s].status = "active"
  /\ subs'[s].status = "unsubscribed"

\* C34: once the caller has unsubscribed, the subscription delivers nothing
\* more to the caller, whatever the entries emit afterwards; and the
\* unsubscribe of a stream with a callback-based stage leaves the downstream
\* request the stage started pending.
C34_CooperativeCancel ==
  [][\A s \in 1..MaxSubs :
       /\ (s \in 1..Len(subs) /\ subs[s].status = "unsubscribed") =>
            /\ subs'[s].status = "unsubscribed"
            /\ subs'[s].delivered = subs[s].delivered
            /\ SelectK(subs'[s].log, {"caller"}) = SelectK(subs[s].log, {"caller"})
       /\ (Unsubscribes(s) /\ HasStage(s) /\ subs[s].src = "pending") =>
            subs'[s].src = "pending"]_vars
C34_Witness ==
  \E s \in 1..Len(subs) :
    /\ subs[s].status = "unsubscribed"
    /\ HasStage(s)
    /\ subs[s].src = "done"
    /\ \E p \in 1..Len(subs[s].log) :
         subs[s].log[p].k = "emit" /\ subs[s].log[p].t = "Response"
    /\ Responses(subs[s].delivered) = <<>>

\* Construction i met the condition of the warning: the server platform and
\* a backend that is neither a FetchBackend nor a testing backend.
MeetsCondition(i) ==
  /\ constructions[i].kind = "construct"
  /\ constructions[i].platform = "server"
  /\ ~constructions[i].backend.fetch
  /\ ~constructions[i].backend.testing
\* The flag before step i of the history.
DisplayedBefore(i) == IF i = 1 THEN FALSE ELSE constructions[i - 1].displayed

\* C35: the warning is printed at most once between two resets of the flag,
\* and only by a construction in dev mode on the server platform whose
\* backend is neither a FetchBackend nor a testing backend; a construction
\* that does not meet the condition leaves the flag as it was.
C35_WarnsOnce ==
  /\ fetchBackendWarningDisplayed =
       (IF constructions = <<>> THEN FALSE
        ELSE constructions[Len(constructions)].displayed)
  /\ \A i \in 1..Len(constructions) :
       /\ constructions[i].warned => (DevMode(ngDevMode) /\ MeetsCondition(i))
       /\ (constructions[i].kind = "construct" /\ ~MeetsCondition(i)) =>
            constructions[i].displayed = DisplayedBefore(i)
       /\ \A j \in (i + 1)..Len(constructions) :
            (constructions[i].warned /\ constructions[j].warned) =>
              \E k \in (i + 1)..(j - 1) : constructions[k].kind = "reset"
C35_Witness ==
  /\ Len(constructions) = 3
  /\ constructions[1].warned
  /\ MeetsCondition(2) /\ ~constructions[2].warned
  /\ constructions[3].kind = "construct" /\ ~MeetsCondition(3)
  /\ fetchBackendWarningDisplayed

\* HTTP transfer caching was disabled by one of the features passed.
CachingDisabled(fs) ==
  \E i \in 1..Len(fs) :
    \/ fs[i] = WithNoHttpTransferCache
    \/ fs[i].kind = HttpTransferCacheOptions /\ fs[i].disable = "true"

\* C31: provideClientHydration leaves the transfer-cache providers out
\* exactly when a feature disabled HTTP transfer caching, by
\* withNoHttpTransferCache() or by withHttpTransferCache({disable: true});
\* otherwise it includes them with the configured exclude callback.
C31_TransferCacheOmitted ==
  providers.called =>
    /\ providers.transferCache.provided <=> ~CachingDisabled(features)
    /\ providers.transferCache.provided =>
         providers.transferCache.exclude = HydrationCacheExclude(features)

\* A time of day as minutes since midnight.
Clock(t) == 60 * t.hours + t.minutes
\* Time t lies in the range of the rule, as clock times: within the day when
\* from is earlier than to, across midnight when from is later than to.
InRange(rule, t) ==
  IF Clock(rule.from) < Clock(rule.to)
  THEN Clock(rule.from) <= Clock(t) /\ Clock(t) < Clock(rule.to)
  ELSE Clock(t) >= Clock(rule.from) \/ Clock(t) < Clock(rule.to)
\* getDateTranslation selected rule i of the locale.
Selected(i) == translation.table = "extraDayPeriods" /\ translation.index = i - 1

\* C32: with extended day periods, a lone range rule [from, to] is selected
\* for the time t exactly when t lies in the range as a clock time: from
\* earlier than to and from <= t < to, or from later than to and t >= from
\* or t < to.
C32_RangeRuleByClock ==
  (translation.called /\ dayPeriodArgs.extended /\ Len(dayPeriodArgs.rules) = 1
     /\ dayPeriodArgs.rules[1].range) =>
    (Selected(1) <=> InRange(dayPeriodArgs.rules[1], dayPeriodArgs.time))

\* C36: whenever parseDigitInfo returns both fraction bounds, the minimum is
\* at most the maximum.
C36_FractionBoundsOrdered ==
  (digits.called /\ ~digits.threw /\ digits.minimumFractionDigits.defined
     /\ digits.maximumFractionDigits.defined) =>
    digits.minimumFractionDigits.value <= digits.maximumFractionDigits.value

\* The text has the format {minInt}.{minFrac}-{maxFrac}: digits or nothing,
\* a dot, and then nothing, or digits, or digits, a dash and digits.
WellFormed(w) ==
  \E p \in 1..Len(w) :
    /\ w[p] = "."
    /\ \A i \in 1..(p - 1) : w[i] \in Digits
    /\ \/ p = Len(w)
       \/ \A i \in (p + 1)..Len(w) : w[i] \in Digits
       \/ \E q \in (p + 2)..(Len(w) - 1) :
            /\ w[q] = "-"
            /\ \A i \in ((p + 1)..Len(w)) \ {q} : w[i] \in Digits
\* The integer part of a well-formed text: the digits before the dot.
IntegerPart(w) == SubSeq(w, 1, IndexOf(w, ".") - 1)

\* C37: parseDigitInfo never returns minimumIntegerDigits 0: a parsed 0 is
\* returned as 1, any other parsed value unchanged, an absent integer part
\* as undefined; a non-empty digitsInfo that does not have the format raises
\* an error.
C37_MinimumIntegerDigits ==
  digits.called =>
    LET w == digitsInfo.text
    IN /\ digits.threw <=> (digitsInfo.given /\ w # <<>> /\ ~WellFormed(w))
       /\ ~digits.threw =>
            /\ digits.minimumIntegerDigits # Some(0)
            /\ digits.minimumIntegerDigits =
                 IF ~digitsInfo.given \/ w = <<>> \/ IntegerPart(w) = <<>> THEN None
                 ELSE IF ParseInt(IntegerPart(w)) = 0 THEN Some(1)
                 ELSE Some(ParseInt(IntegerPart(w)))
C37_Witness ==
  /\ digits.called /\ ~digits.threw
  /\ digitsInfo.text = <<"0", "0", ".", "1">>
  /\ digits.minimumIntegerDigits = Some(1)

=============================================================================
